---- MODULE Spec2Model ----
(***************************************************************************)
(* Model of the analysis core of the GIS urban heat mapping backend        *)
(* (backend/main.py): the WFS membership gate, the point pipeline          *)
(* get_location_analysis, the scalar classifier, the two recommendation    *)
(* rule tables, the AOI raster extraction with its CLIP -> bbox fallback   *)
(* and the AOI pipeline analyze_aoi; the whole-coverage statistics         *)
(* (analytics/raster_stats.py, get_analytics_summary, get_layer_stats) and *)
(* the shapefile upload analyze_aoi_from_shapefile.                        *)
(*                                                                         *)
(* Specifications.  Spec: one request at a time, step by step.  SpecFn:    *)
(* the pure functions applied to bounded inputs.  SpecSys: two workers     *)
(* serving requests concurrently, with the file system.  SpecLive: one     *)
(* worker, fair in every step but the waits that have no time limit.       *)
(*                                                                         *)
(* Numbers.  A Python float / None is a record [kind, num, den]:           *)
(*   kind = "none"                         None                            *)
(*   kind = "num"                          the rational num / den, den > 0 *)
(*   kind = "nan" | "posinf" | "neginf"    the IEEE special values         *)
(* Pixel values are rationals; their sums, means and medians are exact.     *)
(* Percentages are integers in hundredths of a percent (40.00 % = 4000),   *)
(* the severity index and area_sq_km integers in thousandths.  The values  *)
(* handed to round() are computed in binary64, because the side to which a *)
(* decimal tie is rounded is decided by the double.                        *)
(***************************************************************************)
EXTENDS Integers, Sequences, FiniteSets, TLC

VARIABLES
    pc,        \* position of the request being served
    req,       \* the request: operation and inputs
    calls,     \* outbound backend requests issued for this request, in order
    gate,      \* (is_valid, error_message) returned by the membership gate
    got,       \* values returned so far by the raster source
    backend,   \* per coverage extracted so far: the answers the raster source
               \* gives to a clip and to a bounding-box request
    area,      \* projected area of the AOI geometry, m^2
    result,    \* the response of the request
    fn,        \* application of a function: [name, arg, out, applied], with
               \* the number of its outbound requests answered so far and
               \* the argument array as the calls left it
    threads,   \* concurrently served requests: per worker the request-local
               \* state [pc, req, env, calls, gate, got, area, result]
    disk       \* directories that exist on the server's file system

vars == <<pc, req, calls, gate, got, backend, area, result, fn, threads, disk>>

-----------------------------------------------------------------------------
(* Bounds of the model *)

MaxCells == 2          \* cells per raster answered by the backend
MaxFeatures == 2       \* features in a WFS answer

-----------------------------------------------------------------------------
(* Values *)

None == [kind |-> "none", num |-> 0, den |-> 1]
NaN == [kind |-> "nan", num |-> 0, den |-> 1]
PosInf == [kind |-> "posinf", num |-> 0, den |-> 1]
NegInf == [kind |-> "neginf", num |-> 0, den |-> 1]
Frac(n, d) == [kind |-> "num", num |-> n, den |-> d]
Num(n) == Frac(n, 1)

IsNone(v) == v.kind = "none"
IsNaN(v) == v.kind = "nan"

\* v < c for a float v and an integer constant c (IEEE: any comparison
\* with NaN is false)
LtInt(v, c) ==
    CASE v.kind = "num" -> v.num < c * v.den
      [] v.kind = "neginf" -> TRUE
      [] OTHER -> FALSE

\* v >= c for a float v and an integer constant c
GeInt(v, c) ==
    CASE v.kind = "num" -> v.num >= c * v.den
      [] v.kind = "posinf" -> TRUE
      [] OTHER -> FALSE

\* a == b on floats
FloatEq(a, b) ==
    /\ a.kind \notin {"nan", "none"}
    /\ a.kind = b.kind
    /\ a.num * b.den = b.num * a.den

RECURSIVE Gcd(_, _)
Gcd(a, b) == IF b = 0 THEN a ELSE Gcd(b, a % b)

\* a + b on rationals, over the least common denominator
Plus(a, b) ==
    IF a.den = b.den THEN Frac(a.num + b.num, a.den)
    ELSE LET l == (a.den \div Gcd(a.den, b.den)) * b.den
         IN Frac(a.num * (l \div a.den) + b.num * (l \div b.den), l)

\* the sum of the values of s (infinities apart, see Mean)
RECURSIVE SumNum(_)
SumNum(s) == IF s = <<>> THEN Num(0) ELSE Plus(Head(s), SumNum(Tail(s)))

HasKind(s, k) == \E i \in 1..Len(s) : s[i].kind = k

\* float(np.mean(valid_pixels)) of a non-empty sequence without NaN
Mean(s) ==
    IF HasKind(s, "posinf") /\ HasKind(s, "neginf") THEN NaN
    ELSE IF HasKind(s, "posinf") THEN PosInf
    ELSE IF HasKind(s, "neginf") THEN NegInf
    ELSE LET t == SumNum(s) IN Frac(t.num, t.den * Len(s))

\* sequences over S of length 0..n
SeqUpTo(S, n) == UNION {[1..k -> S] : k \in 0..n}

-----------------------------------------------------------------------------
(* Python float arithmetic on non-negative values (IEEE 754 binary64, round *)
(* to nearest, ties to even).  A double is [m, e]: m the 53 bits of its     *)
(* significand, most significant first, and the value is m * 2^e; zero is   *)
(* [m |-> <<>>, e |-> 0].  Integers are written in binary because the       *)
(* significand does not fit a machine integer of the model checker.         *)

Zeros(k) == [i \in 1..k |-> 0]

\* the w binary digits of v < 2^w
Fixed(v, w) == [j \in 1..w |-> (v \div 2 ^ (w - j)) % 2]

\* b without its leading zeros
Strip(b) ==
    IF \A i \in 1..Len(b) : b[i] = 0 THEN <<>>
    ELSE LET k == CHOOSE i \in 1..Len(b) :
                      b[i] = 1 /\ \A j \in 1..(i - 1) : b[j] = 0
         IN SubSeq(b, k, Len(b))

\* the binary digits of a natural number n < 2^31, without leading zeros
NatBits(n) == Strip(Fixed(n \div 2, 30) \o <<n % 2>>)

\* the natural number written by the binary digits b
RECURSIVE BitsNat(_)
BitsNat(b) ==
    IF b = <<>> THEN 0
    ELSE IF Len(b) = 1 THEN b[1]
    ELSE LET h == Len(b) \div 2
         IN BitsNat(SubSeq(b, 1, h)) * 2 ^ (Len(b) - h)
                + BitsNat(SubSeq(b, h + 1, Len(b)))

\* the digits of b * k + carry, 16 digits of b at a time (k < 2^14)
RECURSIVE TimesCarry(_, _, _)
TimesCarry(b, k, carry) ==
    IF Len(b) <= 16 THEN NatBits(BitsNat(b) * k + carry)
    ELSE LET a == BitsNat(SubSeq(b, Len(b) - 15, Len(b))) * k + carry
         IN TimesCarry(SubSeq(b, 1, Len(b) - 16), k, a \div 65536)
                \o Fixed(a % 65536, 16)

\* the digits of a + b + carry, a and b of the same length, 16 digits at a
\* time
RECURSIVE PlusCarry(_, _, _)
PlusCarry(a, b, carry) ==
    IF Len(a) <= 16 THEN NatBits(BitsNat(a) + BitsNat(b) + carry)
    ELSE LET t == BitsNat(SubSeq(a, Len(a) - 15, Len(a)))
                      + BitsNat(SubSeq(b, Len(b) - 15, Len(b))) + carry
         IN PlusCarry(SubSeq(a, 1, Len(a) - 16), SubSeq(b, 1, Len(b) - 16),
                      t \div 65536) \o Fixed(t % 65536, 16)

\* a > b on digits without leading zeros
BitsGreater(a, b) ==
    \/ Len(a) > Len(b)
    \/ /\ Len(a) = Len(b)
       /\ \E i \in 1..Len(a) :
              a[i] > b[i] /\ \A j \in 1..(i - 1) : a[j] = b[j]

Zero64 == [m |-> <<>>, e |-> 0]

\* the double nearest to b * 2^e, or to a value strictly between b * 2^e and
\* (b + 1) * 2^e when inexact: 53 digits are kept, the rest decides the
\* rounding, a tie goes to the even significand
Binary64(b, inexact, e) ==
    IF b = <<>> THEN Zero64
    ELSE IF Len(b) <= 53 THEN
        [m |-> b \o Zeros(53 - Len(b)), e |-> e - (53 - Len(b))]
    ELSE LET keep == SubSeq(b, 1, 53)
             rest == SubSeq(b, 54, Len(b))
             more == inexact \/ \E i \in 2..Len(rest) : rest[i] = 1
             up == rest[1] = 1 /\ (more \/ keep[53] = 1)
             m == IF up THEN PlusCarry(keep, Zeros(53), 1) ELSE keep
         IN [m |-> SubSeq(m, 1, 53), e |-> e + Len(rest) + (Len(m) - 53)]

\* binary long division of n by d < 2^23, 8 digits of the quotient at a
\* time: nb holds the digits of n in groups of 8 (zeros follow), group i is
\* next, r is the remainder so far.  The result holds the first 54 or more
\* significant digits q of the quotient, the remainder and the binary
\* exponent of the last digit of q.
RECURSIVE LongDivision(_, _, _, _, _)
LongDivision(nb, d, i, r, q) ==
    IF Len(q) >= 54 THEN [q |-> q, r |-> r, e |-> Len(nb) - 8 * (i - 1)]
    ELSE LET a == 256 * r + (IF 8 * i <= Len(nb)
                             THEN BitsNat(SubSeq(nb, 8 * i - 7, 8 * i))
                             ELSE 0)
         IN LongDivision(nb, d, i + 1, a % d,
                         IF q = <<>> THEN NatBits(a \div d)
                         ELSE q \o Fixed(a \div d, 8))

\* n / d for integers 0 <= n < 2^31, 0 < d < 2^23: the double nearest to the
\* quotient
Over(n, d) ==
    IF n = 0 THEN Zero64
    ELSE LET l == LongDivision(Fixed(n \div 2, 31) \o <<n % 2>>, d, 1, 0, <<>>)
         IN Binary64(l.q, l.r # 0, l.e)

\* x * k for a double x and an integer k > 0
Times(x, k) ==
    IF x = Zero64 THEN Zero64 ELSE Binary64(TimesCarry(x.m, k, 0), FALSE, x.e)

\* x + y for doubles
Sum64(x, y) ==
    IF x = Zero64 THEN y
    ELSE IF y = Zero64 THEN x
    ELSE LET e == IF x.e < y.e THEN x.e ELSE y.e
             a == x.m \o Zeros(x.e - e)
             b == y.m \o Zeros(y.e - e)
             n == IF Len(a) > Len(b) THEN Len(a) ELSE Len(b)
         IN Binary64(PlusCarry(Zeros(n - Len(a)) \o a, Zeros(n - Len(b)) \o b,
                               0), FALSE, e)

\* x > c for a double x and an integer c >= 0
GreaterInt(x, c) ==
    IF x = Zero64 THEN FALSE
    ELSE IF x.e >= 0 THEN BitsGreater(x.m \o Zeros(x.e), NatBits(c))
    ELSE c = 0 \/ BitsGreater(x.m, NatBits(c) \o Zeros(0 - x.e))

\* Python's round(x, ndigits) for a double x, with p = 10^ndigits: the
\* multiple of 1 / p nearest to the exact value of x, a tie going to the even
\* multiple.  The result is the integer round(x, ndigits) * p; the float
\* Python returns is Over(round(x, p), p).
round(x, p) ==
    IF x = Zero64 THEN 0
    ELSE LET a == TimesCarry(x.m, p, 0)
             k == 0 - x.e
         IN IF k <= 0 THEN BitsNat(a \o Zeros(0 - k))
            ELSE IF k > Len(a) THEN 0
            ELSE LET whole == BitsNat(SubSeq(a, 1, Len(a) - k))
                     frac == SubSeq(a, Len(a) - k + 1, Len(a))
                     more == \E i \in 2..k : frac[i] = 1
                 IN IF frac[1] = 1 /\ (more \/ whole % 2 = 1)
                    THEN whole + 1 ELSE whole

\* round(x, ndigits) * p for a double x that the code computed, in at most
\* three correctly rounded operations, from the exact value n / (d * p), with
\* d < 2^23 and n / d < 2^20.  The exact value in units of 1 / p, n / d, is
\* either a tie between two integers, and then the side on which the double
\* lies decides, or at least 1 / (2 d) away from every tie, which is more
\* than the error of x * p (below 2^-30): the result is then the integer
\* nearest to n / d.
Rounded(n, d, x, p) ==
    IF 2 * (n % d) = d THEN round(x, p)
    ELSE IF 2 * (n % d) > d THEN n \div d + 1
    ELSE n \div d

\* lines 775-777 and 801-803: round(count / total_pixels * 100, 2), in
\* hundredths of a percent
Percentage(count, total_pixels) ==
    Rounded(count * 10000, total_pixels,
            Times(Over(count, total_pixels), 100), 100)

\* lines 790 and 805: round((0.5 * count_moderate + 1.0 * count_high)
\* / total_pixels, 3), in thousandths; the numerator is exact
SeverityIndex(count_moderate, count_high, total_pixels) ==
    Rounded((count_moderate + 2 * count_high) * 1000, 2 * total_pixels,
            Over(count_moderate + 2 * count_high, 2 * total_pixels), 1000)

\* lines 1303, 1332 and 1377: round(area_sq_m / 1_000_000, 3), in thousandths
\* of a km^2
AreaSqKm(area_sq_m) ==
    Rounded(area_sq_m, 1000, Over(area_sq_m, 1000000), 1000)

\* lines 877: (pct_high + pct_moderate) > 60 on the two rounded percentages,
\* given in hundredths.  The float sum is within 2^-40 of the exact sum, so
\* it can differ from it in the comparison only when the exact sum is 60.
SumExceeds60(pct_high, pct_moderate) ==
    IF pct_high + pct_moderate = 6000
    THEN GreaterInt(Sum64(Over(pct_high, 100), Over(pct_moderate, 100)), 60)
    ELSE pct_high + pct_moderate > 6000

-----------------------------------------------------------------------------
(* Backend answers *)

\* an answer of the raster source (WCS GetCoverage)
NetFail == [net |-> "fail", status |-> 0, readable |-> FALSE,
            cells |-> <<>>, nodata |-> None]
HttpErr(s) == [net |-> "ok", status |-> s, readable |-> FALSE,
               cells |-> <<>>, nodata |-> None]
Unreadable == [net |-> "ok", status |-> 200, readable |-> FALSE,
               cells |-> <<>>, nodata |-> None]
Raster(cells, nodata) == [net |-> "ok", status |-> 200, readable |-> TRUE,
                          cells |-> cells, nodata |-> nodata]

\* an answer of the vector membership source (WFS GetFeature)
WfsNetFail == [net |-> "fail", status |-> 0, body |-> "none", features |-> 0]
WfsHttp(s) == [net |-> "ok", status |-> s, body |-> "none", features |-> 0]
WfsFeatures(n) == [net |-> "ok", status |-> 200, body |-> "collection",
                   features |-> n]
WfsNotObject == [net |-> "ok", status |-> 200, body |-> "notobject",
                 features |-> 0]

\* an outbound request together with the answer it received
WfsCall(resp) == [service |-> "WFS", coverage |-> "thodupuzha:thodupuzha_aoi",
                  mode |-> "membership", answer |-> resp]
WcsCall(cov, mode, resp) == [service |-> "WCS", coverage |-> cov,
                             mode |-> mode, answer |-> resp]

-----------------------------------------------------------------------------
(* Masking: valid_mask = (band_data != nodata) & ~np.isnan(band_data) *)

\* variant: the mask also drops the infinities
ValidCell_finite(c, nodata) ==
    IF IsNone(nodata) THEN c.kind = "num"
    ELSE ~FloatEq(c, nodata) /\ c.kind = "num"

ValidCell(c, nodata) ==
    IF IsNone(nodata) THEN ~IsNaN(c)
    ELSE ~FloatEq(c, nodata) /\ ~IsNaN(c)

ValidPixels(cells, nodata) ==
    SelectSeq(cells, LAMBDA c : ValidCell(c, nodata))

-----------------------------------------------------------------------------
(* SpatialGate *)

NoMessage == [msg |-> "none", code |-> 0]
MsgOutside == [msg |-> "Selected point is outside the AOI coverage", code |-> 0]
MsgWfsHttp(s) == [msg |-> "GeoServer WFS returned HTTP", code |-> s]
MsgConnect == [msg |-> "Failed to connect to GeoServer WFS for AOI validation",
               code |-> 0]
MsgUnexpected == [msg |-> "Unexpected error during AOI validation", code |-> 0]

Allowed == [is_valid |-> TRUE, error_message |-> NoMessage]
Denied(m) == [is_valid |-> FALSE, error_message |-> m]

\* variant: only 400 skips the validation, 404 is reported as a failure
validate_point_within_aoi_only400(resp) ==
    IF resp.net = "fail" THEN Denied(MsgConnect)
    ELSE IF resp.status # 200 THEN
        IF resp.status \in {400} THEN Allowed
        ELSE Denied(MsgWfsHttp(resp.status))
    ELSE IF resp.body # "collection" THEN Denied(MsgUnexpected)
    ELSE IF resp.features = 0 THEN Denied(MsgOutside)
    ELSE Allowed

\* variant: the feature count of a 200 answer is not inspected
validate_point_within_aoi_nocount(resp) ==
    IF resp.net = "fail" THEN Denied(MsgConnect)
    ELSE IF resp.status # 200 THEN
        IF resp.status \in {400, 404} THEN Allowed
        ELSE Denied(MsgWfsHttp(resp.status))
    ELSE IF resp.body # "collection" THEN Denied(MsgUnexpected)
    ELSE Allowed

validate_point_within_aoi(resp) ==
    IF resp.net = "fail" THEN Denied(MsgConnect)
    ELSE IF resp.status # 200 THEN
        IF resp.status \in {400, 404} THEN Allowed
        ELSE Denied(MsgWfsHttp(resp.status))
    ELSE IF resp.body # "collection" THEN Denied(MsgUnexpected)
    ELSE IF resp.features = 0 THEN Denied(MsgOutside)
    ELSE Allowed

-----------------------------------------------------------------------------
(* Point sampling *)

\* variant: a non-200 answer is sampled as the value 0 instead of None
fetch_pixel_value_from_wcs_zero(resp) ==
    IF resp.net = "fail" THEN None
    ELSE IF resp.status # 200 THEN Num(0)
    ELSE IF ~resp.readable THEN None
    ELSE LET valid_pixels == ValidPixels(resp.cells, resp.nodata)
         IN IF Len(valid_pixels) = 0 THEN None ELSE Mean(valid_pixels)

fetch_pixel_value_from_wcs(resp) ==
    IF resp.net = "fail" THEN None
    ELSE IF resp.status # 200 THEN None
    ELSE IF ~resp.readable THEN None
    ELSE LET valid_pixels == ValidPixels(resp.cells, resp.nodata)
         IN IF Len(valid_pixels) = 0 THEN None ELSE Mean(valid_pixels)

-----------------------------------------------------------------------------
(* Scalar classifier *)

Classification(c, l, d) ==
    [uhi_class |-> c, uhi_label |-> l, uhi_description |-> d]

\* variant: the thresholds compared with <= instead of <
classify_uhi_le(uhi_class_value) ==
    IF IsNone(uhi_class_value) THEN
        Classification(None, "Unknown", "UHI classification data unavailable")
    ELSE IF LtInt(uhi_class_value, 5) \/ FloatEq(uhi_class_value, Num(5)) THEN
        Classification(Num(0), "Low", "Acts as a cooling or neutral zone")
    ELSE IF LtInt(uhi_class_value, 10) \/ FloatEq(uhi_class_value, Num(10)) THEN
        Classification(Num(1), "Moderate", "Potential heat accumulation zone")
    ELSE
        Classification(Num(2), "High", "Urban heat hotspot requiring mitigation")

classify_uhi(uhi_class_value) ==
    IF IsNone(uhi_class_value) THEN
        Classification(None, "Unknown", "UHI classification data unavailable")
    ELSE IF LtInt(uhi_class_value, 5) THEN
        Classification(Num(0), "Low", "Acts as a cooling or neutral zone")
    ELSE IF LtInt(uhi_class_value, 10) THEN
        Classification(Num(1), "Moderate", "Potential heat accumulation zone")
    ELSE
        Classification(Num(2), "High", "Urban heat hotspot requiring mitigation")

-----------------------------------------------------------------------------
(* Point-level recommendation table; a recommendation string is named by   *)
(* its leading words                                                       *)

\* variant: the Low tier falls through to the empty default
generate_recommendations_nolow(lst, ndvi, ndbi, uhi_label) ==
    IF uhi_label = "Unknown" THEN <<>>
    ELSE IF uhi_label = "High" THEN
        << "CRITICAL ACTION REQUIRED", "ACCELERATED GREENING MANDATE",
           "INFRASTRUCTURE RETROFIT PROGRAM" >>
    ELSE IF uhi_label = "Moderate" THEN
        << "TARGETED MITIGATION", "VEGETATION ENHANCEMENT PLAN",
           "CONTINUOUS MONITORING PROTOCOL" >>
    ELSE <<>>

generate_recommendations(lst, ndvi, ndbi, uhi_label) ==
    IF uhi_label = "Unknown" THEN <<>>
    ELSE IF uhi_label = "High" THEN
        << "CRITICAL ACTION REQUIRED", "ACCELERATED GREENING MANDATE",
           "INFRASTRUCTURE RETROFIT PROGRAM" >>
    ELSE IF uhi_label = "Moderate" THEN
        << "TARGETED MITIGATION", "VEGETATION ENHANCEMENT PLAN",
           "CONTINUOUS MONITORING PROTOCOL" >>
    ELSE IF uhi_label = "Low" THEN
        << "CONSERVATION PRIORITY ZONE" >>
    ELSE <<>>

-----------------------------------------------------------------------------
(* AOI raster extraction: fetch_aoi_raster_from_wcs *)

\* Optional[np.ndarray]: present = FALSE is None
NoPixels == [present |-> FALSE, px |-> <<>>]
Pixels(s) == [present |-> TRUE, px |-> s]

\* variant: no fallback request
NeedsBbox_never(clip_resp) == FALSE

\* variant: the bounding-box request is issued after every clip request
NeedsBbox_always(clip_resp) == TRUE

\* line 652: the bounding-box request is issued iff the clip request was
\* answered with a status other than 200
NeedsBbox(clip_resp) == clip_resp.net = "ok" /\ clip_resp.status # 200

\* lines 656-687: what is made of the last answer received
ReadCoverage(resp) ==
    IF resp.status # 200 THEN NoPixels
    ELSE IF ~resp.readable THEN NoPixels
    ELSE LET valid_pixels == ValidPixels(resp.cells, resp.nodata)
         IN IF Len(valid_pixels) = 0 THEN NoPixels ELSE Pixels(valid_pixels)

\* the valid pixels extracted, given the answer to the clip request and the
\* answer to the bbox request (read only when that request is issued)
fetch_aoi_raster_from_wcs(geometry, clip_resp, bbox_resp) ==
    IF ~geometry.parseable THEN NoPixels
    ELSE IF clip_resp.net = "fail" THEN NoPixels
    ELSE IF NeedsBbox(clip_resp) THEN
        IF bbox_resp.net = "fail" THEN NoPixels ELSE ReadCoverage(bbox_resp)
    ELSE ReadCoverage(clip_resp)

-----------------------------------------------------------------------------
(* Statistics: compute_aoi_statistics *)

Range(s) == {s[i] : i \in 1..Len(s)}

\* a < b on floats that are not NaN
Less(a, b) ==
    \/ a.kind = "neginf" /\ b.kind # "neginf"
    \/ b.kind = "posinf" /\ a.kind # "posinf"
    \/ a.kind = "num" /\ b.kind = "num" /\ a.num * b.den < b.num * a.den

Min(s) == CHOOSE x \in Range(s) : \A y \in Range(s) : ~Less(y, x)
Max(s) == CHOOSE x \in Range(s) : \A y \in Range(s) : ~Less(x, y)

Occurrences(s, v) == Cardinality({i \in 1..Len(s) : s[i] = v})

Sorted(s) ==
    CHOOSE t \in [1..Len(s) -> Range(s)] :
        /\ \A v \in Range(s) : Occurrences(t, v) = Occurrences(s, v)
        /\ \A i \in 1..(Len(s) - 1) : ~Less(t[i + 1], t[i])

\* (a + b) / 2 on floats that are not NaN
Midpoint(a, b) ==
    IF {a.kind, b.kind} = {"posinf", "neginf"} THEN NaN
    ELSE IF "posinf" \in {a.kind, b.kind} THEN PosInf
    ELSE IF "neginf" \in {a.kind, b.kind} THEN NegInf
    ELSE Frac(a.num * b.den + b.num * a.den, 2 * a.den * b.den)

Median(s) ==
    LET t == Sorted(s)
        n == Len(s)
    IN IF n % 2 = 1 THEN t[(n + 1) \div 2]
       ELSE Midpoint(t[n \div 2], t[n \div 2 + 1])

\* the sum of the squares of the values of s; its denominator is the square
\* of the denominator of SumNum(s)
RECURSIVE SumSq(_)
SumSq(s) ==
    IF s = <<>> THEN Num(0)
    ELSE Plus(Frac(Head(s).num * Head(s).num, Head(s).den * Head(s).den),
              SumSq(Tail(s)))

\* np.std, ddof = 0: the value is the square root of the rational recorded
\* (kind "sqrt"), the mean of the squares minus the square of the mean;
\* NaN as soon as a pixel is infinite
Std(s) ==
    IF HasKind(s, "posinf") \/ HasKind(s, "neginf") THEN NaN
    ELSE LET t == SumNum(s)
             q == SumSq(s)
         IN [kind |-> "sqrt", num |-> Len(s) * q.num - t.num * t.num,
             den |-> Len(s) * Len(s) * q.den]

\* None in place of a statistics record
NullStats == [present |-> FALSE, min |-> None, max |-> None, mean |-> None,
              median |-> None, std |-> None, count |-> 0]

\* variant: the empty record is filled with zeros instead of None
compute_aoi_statistics_zero(pixel_values) ==
    IF ~pixel_values.present \/ Len(pixel_values.px) = 0 THEN
        [present |-> TRUE, min |-> Num(0), max |-> Num(0), mean |-> Num(0),
         median |-> Num(0), std |-> Num(0), count |-> 0]
    ELSE
        [present |-> TRUE, min |-> Min(pixel_values.px),
         max |-> Max(pixel_values.px), mean |-> Mean(pixel_values.px),
         median |-> Median(pixel_values.px), std |-> Std(pixel_values.px),
         count |-> Len(pixel_values.px)]

compute_aoi_statistics(pixel_values) ==
    IF ~pixel_values.present \/ Len(pixel_values.px) = 0 THEN
        [present |-> TRUE, min |-> None, max |-> None, mean |-> None,
         median |-> None, std |-> None, count |-> 0]
    ELSE
        [present |-> TRUE, min |-> Min(pixel_values.px),
         max |-> Max(pixel_values.px), mean |-> Mean(pixel_values.px),
         median |-> Median(pixel_values.px), std |-> Std(pixel_values.px),
         count |-> Len(pixel_values.px)]

-----------------------------------------------------------------------------
(* Whole-coverage statistics: analytics/raster_stats.py compute_raster_stats *)

\* the call raises exc instead of returning
RasterStatsRaised(exc) ==
    [raised |-> exc, min |-> None, max |-> None, mean |-> None, std |-> None,
     pixels |-> 0]

\* the dictionary the call returns
RasterStats(valid_data) ==
    [raised |-> "none", min |-> Min(valid_data), max |-> Max(valid_data),
     mean |-> Mean(valid_data), std |-> Std(valid_data),
     pixels |-> Len(valid_data)]

\* given the answer to its single GetCoverage request
compute_raster_stats(resp) ==
    IF resp.net = "fail" THEN RasterStatsRaised("RequestException")
    ELSE IF resp.status >= 400 /\ resp.status < 600 THEN
        RasterStatsRaised("HTTPError")
    ELSE IF ~resp.readable THEN RasterStatsRaised("RasterioError")
    ELSE LET valid_data == ValidPixels(resp.cells, resp.nodata)
         IN IF Len(valid_data) = 0 THEN RasterStatsRaised("ValueError")
            ELSE RasterStats(valid_data)

\* compute_raster_stats_with_bbox, given the answer to its single GetCoverage
\* request for the subset
compute_raster_stats_with_bbox(resp) ==
    IF resp.net = "fail" THEN RasterStatsRaised("RequestException")
    ELSE IF resp.status >= 400 /\ resp.status < 600 THEN
        RasterStatsRaised("HTTPError")
    ELSE IF ~resp.readable THEN RasterStatsRaised("RasterioError")
    ELSE LET valid_data == ValidPixels(resp.cells, resp.nodata)
         IN IF Len(valid_data) = 0 THEN RasterStatsRaised("ValueError")
            ELSE RasterStats(valid_data)

-----------------------------------------------------------------------------
(* Statistics of the four layers: get_analytics_summary.  answers[i] is the *)
(* answer to the GetCoverage request for the i-th layer.                   *)

Layers == << "LST", "NDVI", "NDBI", "UHI" >>

\* results and errors after the loop over the layers
SummaryResults(answers) ==
    {i \in 1..4 : compute_raster_stats(answers[i]).raised = "none"}
SummaryErrors(answers) ==
    {i \in 1..4 : compute_raster_stats(answers[i]).raised # "none"}

SummaryRecord(http, answers, results, has_errors, errors) ==
    [http |-> http,
     layers |-> [l \in {Layers[i] : i \in results} |->
                    compute_raster_stats(
                        answers[CHOOSE i \in results : Layers[i] = l])],
     has_errors |-> has_errors,
     errors |-> [l \in {Layers[i] : i \in errors} |->
                    compute_raster_stats(
                        answers[CHOOSE i \in errors : Layers[i] = l]).raised]]

\* variant: the request fails as soon as one layer fails
get_analytics_summary_any(answers) ==
    LET results == SummaryResults(answers)
        errors == SummaryErrors(answers)
    IN IF errors # {} THEN SummaryRecord(500, answers, {}, TRUE, errors)
       ELSE SummaryRecord(200, answers, results, errors # {}, errors)

get_analytics_summary(answers) ==
    LET results == SummaryResults(answers)
        errors == SummaryErrors(answers)
    IN IF results = {} /\ errors # {} THEN
           SummaryRecord(500, answers, {}, TRUE, errors)
       ELSE SummaryRecord(200, answers, results, errors # {}, errors)

\* the coverage compute_raster_stats requests for a layer name
LayerCoverage(layer_name) == "thodupuzha__" \o layer_name

\* GET /api/analytics/layer/{layer_name}, given the answer to the single
\* GetCoverage request of compute_raster_stats
get_layer_stats(layer_name, resp) ==
    LET stats == compute_raster_stats(resp)
    IN IF stats.raised = "none"
       THEN [op |-> "layer", http |-> 200, layer |-> layer_name,
             statistics |-> stats]
       ELSE [op |-> "layer", http |-> 500, layer |-> layer_name,
             error |-> stats.raised]

-----------------------------------------------------------------------------
(* Class distribution: analyze_uhi_class_distribution *)

\* variant: among equal maximal counts the last key wins
DominantClass_last(count_low, count_moderate, count_high) ==
    IF count_high >= count_moderate /\ count_high >= count_low THEN "High"
    ELSE IF count_moderate >= count_low THEN "Moderate"
    ELSE "Low"

\* max(counts, key = counts.get) over the keys in the order Low, Moderate,
\* High: the first key whose count is maximal
DominantClass(count_low, count_moderate, count_high) ==
    IF count_low >= count_moderate /\ count_low >= count_high THEN "Low"
    ELSE IF count_moderate >= count_high THEN "Moderate"
    ELSE "High"

\* the record of the variants below
DistributionRecord(count_low, count_moderate, count_high, total_pixels, dominant_class, severity_index) ==
    [count_low |-> count_low, count_moderate |-> count_moderate,
     count_high |-> count_high,
     percentage_low |->
        IF total_pixels = 0 THEN 0
        ELSE Percentage(count_low, total_pixels),
     percentage_moderate |->
        IF total_pixels = 0 THEN 0
        ELSE Percentage(count_moderate, total_pixels),
     percentage_high |->
        IF total_pixels = 0 THEN 0
        ELSE Percentage(count_high, total_pixels),
     dominant_class |-> dominant_class, severity_index |-> severity_index,
     total_pixels |-> total_pixels]

\* variant: the High tier starts above 10, a pixel equal to 10 is in no tier
\* variant: the classification is written into the array (0, 1, 2)
uhi_pixels_after_classified(uhi_pixels) ==
    IF ~uhi_pixels.present THEN uhi_pixels
    ELSE Pixels([i \in 1..Len(uhi_pixels.px) |->
                    classify_uhi(uhi_pixels.px[i]).uhi_class])

\* the argument array of analyze_uhi_class_distribution after the call: lines
\* 752-807 read it (len, comparisons that build new arrays, np.sum) and
\* assign neither to it nor to one of its elements
uhi_pixels_after(uhi_pixels) == uhi_pixels

analyze_uhi_class_distribution_gt(uhi_pixels) ==
    IF ~uhi_pixels.present \/ Len(uhi_pixels.px) = 0 THEN
        DistributionRecord(0, 0, 0, 0, "Unknown", 0)
    ELSE
        LET px == uhi_pixels.px
            count_low == Cardinality({i \in 1..Len(px) : LtInt(px[i], 5)})
            count_moderate ==
                Cardinality({i \in 1..Len(px) :
                                GeInt(px[i], 5) /\ LtInt(px[i], 10)})
            count_high ==
                Cardinality({i \in 1..Len(px) :
                                GeInt(px[i], 10) /\ ~FloatEq(px[i], Num(10))})
        IN DistributionRecord(count_low, count_moderate, count_high, Len(px),
               DominantClass(count_low, count_moderate, count_high),
               SeverityIndex(count_moderate, count_high, Len(px)))

\* variant: the Moderate tier weighs 1.0 in the severity index
analyze_uhi_class_distribution_weights(uhi_pixels) ==
    IF ~uhi_pixels.present \/ Len(uhi_pixels.px) = 0 THEN
        DistributionRecord(0, 0, 0, 0, "Unknown", 0)
    ELSE
        LET px == uhi_pixels.px
            count_low == Cardinality({i \in 1..Len(px) : LtInt(px[i], 5)})
            count_moderate ==
                Cardinality({i \in 1..Len(px) :
                                GeInt(px[i], 5) /\ LtInt(px[i], 10)})
            count_high == Cardinality({i \in 1..Len(px) : GeInt(px[i], 10)})
        IN DistributionRecord(count_low, count_moderate, count_high, Len(px),
               DominantClass(count_low, count_moderate, count_high),
               Rounded((count_moderate + count_high) * 1000, Len(px),
                       Over(count_moderate + count_high, Len(px)), 1000))

\* variant: the empty input goes through the maximum scan like any other
analyze_uhi_class_distribution_maxscan(uhi_pixels) ==
    IF ~uhi_pixels.present \/ Len(uhi_pixels.px) = 0 THEN
        DistributionRecord(0, 0, 0, 0, DominantClass(0, 0, 0), 0)
    ELSE
        LET px == uhi_pixels.px
            count_low == Cardinality({i \in 1..Len(px) : LtInt(px[i], 5)})
            count_moderate ==
                Cardinality({i \in 1..Len(px) :
                                GeInt(px[i], 5) /\ LtInt(px[i], 10)})
            count_high == Cardinality({i \in 1..Len(px) : GeInt(px[i], 10)})
        IN DistributionRecord(count_low, count_moderate, count_high, Len(px),
               DominantClass(count_low, count_moderate, count_high),
               SeverityIndex(count_moderate, count_high, Len(px)))

\* variant: the tier boundaries 5 and 10 belong to the lower tier
analyze_uhi_class_distribution_le(uhi_pixels) ==
    IF ~uhi_pixels.present \/ Len(uhi_pixels.px) = 0 THEN
        DistributionRecord(0, 0, 0, 0, "Unknown", 0)
    ELSE
        LET px == uhi_pixels.px
            count_low ==
                Cardinality({i \in 1..Len(px) :
                                LtInt(px[i], 5) \/ FloatEq(px[i], Num(5))})
            count_high ==
                Cardinality({i \in 1..Len(px) :
                                GeInt(px[i], 10) /\ ~FloatEq(px[i], Num(10))})
            count_moderate == Len(px) - count_low - count_high
        IN DistributionRecord(count_low, count_moderate, count_high, Len(px),
               DominantClass(count_low, count_moderate, count_high),
               SeverityIndex(count_moderate, count_high, Len(px)))

\* percentages in hundredths of a percent, severity index in thousandths
analyze_uhi_class_distribution(uhi_pixels) ==
    IF ~uhi_pixels.present \/ Len(uhi_pixels.px) = 0 THEN
        [count_low |-> 0, count_moderate |-> 0, count_high |-> 0,
         percentage_low |-> 0, percentage_moderate |-> 0,
         percentage_high |-> 0, dominant_class |-> "Unknown",
         severity_index |-> 0, total_pixels |-> 0]
    ELSE
        LET px == uhi_pixels.px
            count_low == Cardinality({i \in 1..Len(px) : LtInt(px[i], 5)})
            count_moderate ==
                Cardinality({i \in 1..Len(px) :
                                GeInt(px[i], 5) /\ LtInt(px[i], 10)})
            count_high == Cardinality({i \in 1..Len(px) : GeInt(px[i], 10)})
            total_pixels == Len(px)
        IN [count_low |-> count_low, count_moderate |-> count_moderate,
            count_high |-> count_high,
            percentage_low |-> Percentage(count_low, total_pixels),
            percentage_moderate |->
                Percentage(count_moderate, total_pixels),
            percentage_high |-> Percentage(count_high, total_pixels),
            dominant_class |->
                DominantClass(count_low, count_moderate, count_high),
            severity_index |->
                SeverityIndex(count_moderate, count_high, total_pixels),
            total_pixels |-> total_pixels]

\* lines 771-807: the record made of the three tier counts of a non-empty
\* array (total_pixels = len(uhi_pixels) is their sum when no pixel is NaN)
DistributionOfCounts(count_low, count_moderate, count_high) ==
    LET total_pixels == count_low + count_moderate + count_high
    IN [count_low |-> count_low, count_moderate |-> count_moderate,
        count_high |-> count_high,
        percentage_low |-> Percentage(count_low, total_pixels),
        percentage_moderate |->
            Percentage(count_moderate, total_pixels),
        percentage_high |-> Percentage(count_high, total_pixels),
        dominant_class |-> DominantClass(count_low, count_moderate, count_high),
        severity_index |->
            SeverityIndex(count_moderate, count_high, total_pixels),
        total_pixels |-> total_pixels]

-----------------------------------------------------------------------------
(* AOI-level rule table: generate_aoi_recommendations.  An action string   *)
(* is named by its leading words.                                          *)

Zone(zone_type, priority_level, key_actions) ==
    [zone_type |-> zone_type, priority_level |-> priority_level,
     key_actions |-> key_actions]

\* variant: the thresholds compared with >= instead of >
generate_aoi_recommendations_ge(uhi_distribution, area_sq_km) ==
    LET pct_high == uhi_distribution.percentage_high
        pct_moderate == uhi_distribution.percentage_moderate
        pct_low == uhi_distribution.percentage_low
    IN IF pct_high >= 4000 THEN
           Zone("Severe Heat Action Zone", "Critical",
                << "EMERGENCY COOLING DEPLOYMENT", "RAPID URBAN FORESTRY BLITZ",
                   "MANDATORY COOL ROOF PROGRAM", "WATER FEATURE INTEGRATION",
                   "CONTINUOUS THERMAL MONITORING" >>)
       ELSE IF \/ SumExceeds60(pct_high, pct_moderate)
               \/ Sum64(Over(pct_high, 100), Over(pct_moderate, 100))
                      = Over(60, 1) THEN
           Zone("Heat Mitigation Priority", "High",
                << "STRATEGIC GREENING PROGRAM", "GREEN INFRASTRUCTURE NETWORK",
                   "COOL SURFACE INITIATIVE", "COMMUNITY GREENING INCENTIVES",
                   "HEAT TREND MONITORING" >>)
       ELSE IF pct_low >= 7000 THEN
           Zone("Conservation Priority Zone", "Moderate",
                << "STRICT VEGETATION PROTECTION ORDINANCE",
                   "ECOLOGICAL CORRIDOR DESIGNATION", "GREEN SPACE ENHANCEMENT",
                   "CONSERVATION EASEMENTS", "LONG-TERM MONITORING" >>)
       ELSE
           Zone("Mixed Urban Thermal Zone", "Moderate",
                << "SPATIAL TARGETING", "SELECTIVE GREENING", "HYBRID APPROACH",
                   "NEIGHBORHOOD-SCALE INTERVENTIONS", "ADAPTIVE MANAGEMENT" >>)

generate_aoi_recommendations(uhi_distribution, area_sq_km) ==
    LET pct_high == uhi_distribution.percentage_high
        pct_moderate == uhi_distribution.percentage_moderate
        pct_low == uhi_distribution.percentage_low
    IN IF pct_high > 4000 THEN
           Zone("Severe Heat Action Zone", "Critical",
                << "EMERGENCY COOLING DEPLOYMENT", "RAPID URBAN FORESTRY BLITZ",
                   "MANDATORY COOL ROOF PROGRAM", "WATER FEATURE INTEGRATION",
                   "CONTINUOUS THERMAL MONITORING" >>)
       ELSE IF SumExceeds60(pct_high, pct_moderate) THEN
           Zone("Heat Mitigation Priority", "High",
                << "STRATEGIC GREENING PROGRAM", "GREEN INFRASTRUCTURE NETWORK",
                   "COOL SURFACE INITIATIVE", "COMMUNITY GREENING INCENTIVES",
                   "HEAT TREND MONITORING" >>)
       ELSE IF pct_low > 7000 THEN
           Zone("Conservation Priority Zone", "Moderate",
                << "STRICT VEGETATION PROTECTION ORDINANCE",
                   "ECOLOGICAL CORRIDOR DESIGNATION", "GREEN SPACE ENHANCEMENT",
                   "CONSERVATION EASEMENTS", "LONG-TERM MONITORING" >>)
       ELSE
           Zone("Mixed Urban Thermal Zone", "Moderate",
                << "SPATIAL TARGETING", "SELECTIVE GREENING", "HYBRID APPROACH",
                   "NEIGHBORHOOD-SCALE INTERVENTIONS", "ADAPTIVE MANAGEMENT" >>)

\* analyze_aoi, lines 1343-1368, for a primary array given by its tier
\* counts: the distribution and the zone derived from it
AoiZoneOfCounts(count_low, count_moderate, count_high, area_sq_km) ==
    LET uhi_distribution ==
            DistributionOfCounts(count_low, count_moderate, count_high)
    IN [uhi_distribution |-> uhi_distribution,
        recommendations |->
            generate_aoi_recommendations(uhi_distribution, area_sq_km)]

-----------------------------------------------------------------------------
(* Point pipeline: get_location_analysis *)

NoResult == [op |-> "none", http |-> 0]

\* the HTTP error response of the point endpoint
PointError(http, error) ==
    [op |-> "point", http |-> http, data_status |-> "none", error |-> error,
     lst |-> None, ndvi |-> None, ndbi |-> None,
     uhi_class |-> None, uhi_label |-> "none", uhi_description |-> "none",
     recommendations |-> <<>>]

PointBody(data_status, lst, ndvi, ndbi, c, recommendations) ==
    [op |-> "point", http |-> 200, data_status |-> data_status,
     error |-> NoMessage, lst |-> lst, ndvi |-> ndvi, ndbi |-> ndbi,
     uhi_class |-> c.uhi_class, uhi_label |-> c.uhi_label,
     uhi_description |-> c.uhi_description,
     recommendations |-> recommendations]

\* the except clauses of get_location_analysis
PointExcept(exc) ==
    IF exc.type = "HTTPException" THEN PointError(exc.status, exc.detail)
    ELSE IF exc.type = "RequestException" THEN
        PointError(503, [msg |-> "Failed to connect to GeoServer", code |-> 0])
    ELSE PointError(500, [msg |-> "Failed to analyze location", code |-> 0])

\* int(x) raises OverflowError / ValueError on an infinity / NaN
IntRaises(v) == v.kind \in {"posinf", "neginf", "nan"}

\* variant: the gate's message is not surfaced
PointDenied_fixed(g) ==
    PointExcept([type |-> "HTTPException", status |-> 400, detail |-> MsgOutside])

\* step 1 of get_location_analysis after the gate answered: the response
\* when the gate denies
PointDenied(g) ==
    PointExcept([type |-> "HTTPException", status |-> 400,
                 detail |-> IF g.error_message = NoMessage THEN MsgOutside
                            ELSE g.error_message])

\* variant: the outside-coverage result does not carry the optional samples
PointOutcome_nooptional(uhi_class, lst, ndvi, ndbi) ==
    IF ~IsNone(uhi_class) /\ IntRaises(uhi_class) THEN
        PointExcept([type |-> "OverflowError", status |-> 0, detail |-> NoMessage])
    ELSE IF IsNone(uhi_class) THEN
        PointBody("outside_coverage", None, None, None,
                  Classification(None, "Unknown", "Outside coverage area"), <<>>)
    ELSE LET uhi_result == classify_uhi(uhi_class)
         IN PointBody("ok", lst, ndvi, ndbi, uhi_result,
                generate_recommendations(lst, ndvi, ndbi, uhi_result.uhi_label))

\* steps 3-5 of get_location_analysis, after the four samples
PointOutcome(uhi_class, lst, ndvi, ndbi) ==
    IF ~IsNone(uhi_class) /\ IntRaises(uhi_class) THEN
        PointExcept([type |-> "OverflowError", status |-> 0, detail |-> NoMessage])
    ELSE IF IsNone(uhi_class) THEN
        PointBody("outside_coverage", lst, ndvi, ndbi,
                  Classification(None, "Unknown", "Outside coverage area"), <<>>)
    ELSE LET uhi_result == classify_uhi(uhi_class)
         IN PointBody("ok", lst, ndvi, ndbi, uhi_result,
                generate_recommendations(lst, ndvi, ndbi, uhi_result.uhi_label))

\* terminal state of a point response
PointTerminal(r) ==
    CASE r.http = 200 -> r.data_status
      [] r.http = 400 -> "rejected"
      [] r.http = 503 -> "service_error"
      [] OTHER -> "internal_error"

-----------------------------------------------------------------------------
(* AOI pipeline: AOIAnalysisRequest and analyze_aoi *)

\* a GeoJSON geometry, by the properties the code inspects
Geometry(type, has_coordinates, parseable, is_valid, is_empty, area_sq_m) ==
    [type |-> type, has_coordinates |-> has_coordinates,
     parseable |-> parseable, is_valid |-> is_valid, is_empty |-> is_empty,
     area_sq_m |-> area_sq_m]

\* variant: the topological validity of the parsed geometry is not tested
validate_geometry_novalid(v) ==
    /\ v.type \in {"Polygon", "MultiPolygon"}
    /\ v.has_coordinates
    /\ v.parseable
    /\ ~v.is_empty

\* AOIAnalysisRequest.validate_geometry: TRUE iff no ValueError is raised
validate_geometry(v) ==
    /\ v.type \in {"Polygon", "MultiPolygon"}
    /\ v.has_coordinates
    /\ v.parseable
    /\ v.is_valid
    /\ ~v.is_empty

\* the request model accepts the body (otherwise HTTP 422)
RequestAccepted(geometry, crs) ==
    validate_geometry(geometry) /\ crs = "EPSG:4326"

EmptyDict == [k \in {} |-> NullStats]
NoClassification == Classification(None, "none", "none")
NoDistribution == [count_low |-> 0, count_moderate |-> 0, count_high |-> 0,
                   percentage_low |-> 0, percentage_moderate |-> 0,
                   percentage_high |-> 0, dominant_class |-> "none",
                   severity_index |-> 0, total_pixels |-> 0]
NoZone == Zone("none", "none", <<>>)

\* an HTTP error response of the AOI endpoint
AoiError(http, error) ==
    [op |-> "aoi", http |-> http, status |-> "none", error |-> error,
     fields |-> {"detail"}, area_sq_km |-> 0, statistics |-> EmptyDict,
     uhi_classification |-> NoClassification,
     uhi_distribution |-> NoDistribution, recommendations |-> NoZone]

\* lines 1324-1335; area_sq_km in thousandths of a km^2
AoiNoData(area_sq_m) ==
    [op |-> "aoi", http |-> 200, status |-> "no_data", error |-> NoMessage,
     fields |-> {"geometry", "crs", "analysis_type", "status", "area_sq_km",
                 "message", "statistics"},
     area_sq_km |-> AreaSqKm(area_sq_m), statistics |-> EmptyDict,
     uhi_classification |-> NoClassification,
     uhi_distribution |-> NoDistribution, recommendations |-> NoZone]

\* variant: the label is always the classification of the mean
AoiClassification_mean(uhi_distribution, uhi_stats) ==
    classify_uhi(uhi_stats.mean)

\* lines 1355-1365
AoiClassification(uhi_distribution, uhi_stats) ==
    IF uhi_distribution.dominant_class # "Unknown" THEN
        [classify_uhi(uhi_stats.mean)
            EXCEPT !.uhi_label = uhi_distribution.dominant_class]
    ELSE classify_uhi(uhi_stats.mean)

\* the success record of the variants below
AoiSuccess(area_sq_m, uhi_pixels, lst_pixels, ndvi_pixels, ndbi_pixels) ==
    LET uhi_stats == compute_aoi_statistics(uhi_pixels)
        uhi_distribution == analyze_uhi_class_distribution(uhi_pixels)
        StatsOf(pixels) == IF pixels.present
                           THEN compute_aoi_statistics(pixels) ELSE NullStats
    IN [op |-> "aoi", http |-> 200, status |-> "success", error |-> NoMessage,
        fields |-> {"geometry", "crs", "analysis_type", "status",
                    "area_sq_km", "uhi_classification", "uhi_distribution",
                    "recommendations", "statistics"},
        area_sq_km |-> AreaSqKm(area_sq_m),
        statistics |-> [uhi |-> uhi_stats, lst |-> StatsOf(lst_pixels),
                        ndvi |-> StatsOf(ndvi_pixels),
                        ndbi |-> StatsOf(ndbi_pixels)],
        uhi_classification |-> AoiClassification(uhi_distribution, uhi_stats),
        uhi_distribution |-> uhi_distribution,
        recommendations |->
            generate_aoi_recommendations(uhi_distribution, area_sq_m)]

\* variant: the no-data terminus is taken only when no coverage at all
\* delivered pixels
AoiOutcome_anylayer(area_sq_m, uhi_pixels, lst_pixels, ndvi_pixels, ndbi_pixels) ==
    IF ~uhi_pixels.present /\ ~lst_pixels.present /\ ~ndvi_pixels.present
       /\ ~ndbi_pixels.present
    THEN AoiNoData(area_sq_m)
    ELSE AoiSuccess(area_sq_m, uhi_pixels, lst_pixels, ndvi_pixels, ndbi_pixels)

\* variant: a missing informational coverage ends the analysis as well
AoiOutcome_strict(area_sq_m, uhi_pixels, lst_pixels, ndvi_pixels, ndbi_pixels) ==
    IF ~uhi_pixels.present \/ ~lst_pixels.present \/ ~ndvi_pixels.present
       \/ ~ndbi_pixels.present
    THEN AoiNoData(area_sq_m)
    ELSE AoiSuccess(area_sq_m, uhi_pixels, lst_pixels, ndvi_pixels, ndbi_pixels)

\* variant: no no-data terminus
AoiOutcome_nocheck(area_sq_m, uhi_pixels, lst_pixels, ndvi_pixels, ndbi_pixels) ==
    AoiSuccess(area_sq_m, uhi_pixels, lst_pixels, ndvi_pixels, ndbi_pixels)

\* lines 1324-1392, after the four extractions
AoiOutcome(area_sq_m, uhi_pixels, lst_pixels, ndvi_pixels, ndbi_pixels) ==
    IF ~uhi_pixels.present \/ Len(uhi_pixels.px) = 0 THEN AoiNoData(area_sq_m)
    ELSE
        LET uhi_stats == compute_aoi_statistics(uhi_pixels)
            lst_stats == IF lst_pixels.present
                         THEN compute_aoi_statistics(lst_pixels) ELSE NullStats
            ndvi_stats == IF ndvi_pixels.present
                          THEN compute_aoi_statistics(ndvi_pixels) ELSE NullStats
            ndbi_stats == IF ndbi_pixels.present
                          THEN compute_aoi_statistics(ndbi_pixels) ELSE NullStats
            uhi_distribution == analyze_uhi_class_distribution(uhi_pixels)
        IN [op |-> "aoi", http |-> 200, status |-> "success",
            error |-> NoMessage,
            fields |-> {"geometry", "crs", "analysis_type", "status",
                        "area_sq_km", "uhi_classification", "uhi_distribution",
                        "recommendations", "statistics"},
            area_sq_km |-> AreaSqKm(area_sq_m),
            statistics |-> [uhi |-> uhi_stats, lst |-> lst_stats,
                            ndvi |-> ndvi_stats, ndbi |-> ndbi_stats],
            uhi_classification |-> AoiClassification(uhi_distribution, uhi_stats),
            uhi_distribution |-> uhi_distribution,
            recommendations |->
                generate_aoi_recommendations(uhi_distribution, area_sq_m)]

\* terminal state of an AOI response
AoiTerminal(r) ==
    CASE r.http = 200 -> r.status
      [] r.http \in {400, 422} -> "rejected"
      [] OTHER -> "internal_error"

-----------------------------------------------------------------------------
(* Backend answers the model draws from *)

CellValues == {Num(0), Num(3), Frac(15, 2), Num(12), NaN, PosInf}
Sentinels == {None, Num(0)}
ErrorStatuses == {404, 500}

Rasters == {Raster(c, n) : c \in SeqUpTo(CellValues, MaxCells), n \in Sentinels}

\* answers for the required coverage
WcsAnswers == {NetFail, Unreadable} \cup {HttpErr(s) : s \in ErrorStatuses}
              \cup Rasters

\* answers for an informational coverage
WcsAnswersInfo == {NetFail, HttpErr(500), Raster(<<Num(0)>>, Num(0)),
                   Raster(<<Num(3)>>, None)}

WfsAnswers == {WfsNetFail, WfsNotObject}
              \cup {WfsHttp(s) : s \in {400, 404, 401, 500, 503}}
              \cup {WfsFeatures(n) : n \in 0..MaxFeatures}

Coverages == << "thodupuzha__UHI", "thodupuzha__LST", "thodupuzha__NDVI",
                "thodupuzha__NDBI" >>

AnswersFor(cov) == IF cov = "thodupuzha__UHI" THEN WcsAnswers ELSE WcsAnswersInfo

NoGate == [is_valid |-> FALSE, error_message |-> [msg |-> "unset", code |-> 0]]

AoiAnswersFor(cov) == AnswersFor(cov)

\* answers to the bounding-box request
AoiBboxAnswersFor(cov) ==
    IF cov = "thodupuzha__UHI" THEN WcsAnswers
    ELSE {NetFail, Raster(<<Num(3)>>, None)}

BboxDefault(cov) == NetFail

Geometries ==
    { Geometry("Polygon", TRUE, TRUE, TRUE, FALSE, 2500400),
      Geometry("MultiPolygon", TRUE, TRUE, TRUE, FALSE, 731999600),
      Geometry("Point", TRUE, TRUE, TRUE, FALSE, 0),
      Geometry("Polygon", FALSE, FALSE, FALSE, FALSE, 0),
      Geometry("Polygon", TRUE, FALSE, FALSE, FALSE, 0),
      Geometry("Polygon", TRUE, TRUE, FALSE, FALSE, 0),
      Geometry("Polygon", TRUE, TRUE, TRUE, TRUE, 0) }

ReferenceSystems == {"EPSG:4326", "EPSG:3857"}

NoGeometry == Geometry("none", FALSE, FALSE, FALSE, FALSE, 0)
NoRequest == [op |-> "none", geometry |-> NoGeometry, crs |-> "none"]
NoFn == [name |-> "none", arg |-> <<>>, out |-> <<>>, applied |-> FALSE,
         again |-> <<>>, answered |-> 0, held |-> <<>>]

\* an uploaded archive, by the properties analyze_aoi_from_shapefile inspects:
\* zipfile: what zipfile.ZipFile() raises on its content, extractall: what
\* extractall raises (each "none", "BadZipFile" or "other"), features: rows
\* read, dissolved: rows of the frame dissolve() returns (one for every
\* frame with rows), geometry: the dissolved geometry after the buffer(0)
\* repair
Archive(zip_name, zipfile, extractall, has_shp, has_components, readable, features, dissolved, geometry) ==
    [zip_name |-> zip_name, zipfile |-> zipfile, extractall |-> extractall,
     has_shp |-> has_shp, has_components |-> has_components,
     readable |-> readable, features |-> features, dissolved |-> dissolved,
     geometry |-> geometry]

NoFile == Archive(FALSE, "none", "none", FALSE, FALSE, FALSE, 0, 0, NoGeometry)

\* what the system calls of an upload do: fault is the call that raises
\* ("read": await file.read(), "mkdtemp", "makedirs", "move": shutil.move,
\* "icacls": subprocess.run with check=True, "to_crs", or "none"), rmtree_ok
\* whether shutil.rmtree of the finally clause succeeds
Env(fault, rmtree_ok) == [fault |-> fault, rmtree_ok |-> rmtree_ok]

NoEnv == Env("none", TRUE)

\* the workers that serve requests concurrently
Threads == {1, 2}

\* a worker without a request
IdleThread ==
    [pc |-> "idle",
     req |-> [op |-> "none", geometry |-> NoGeometry, crs |-> "none",
              file |-> NoFile, layer_name |-> "none"],
     env |-> NoEnv,
     calls |-> <<>>, gate |-> NoGate, got |-> <<>>, area |-> 0,
     result |-> NoResult]

\* temp: extraction directories (tempfile.mkdtemp), uploads: directories
\* under the map server's data directory; each named by its creator
EmptyDisk == [temp |-> {}, uploads |-> {}]

Quiet == threads = [t \in Threads |-> IdleThread] /\ disk = EmptyDisk

Idle ==
    /\ pc = "idle"
    /\ req = NoRequest
    /\ calls = <<>>
    /\ gate = NoGate
    /\ got = <<>>
    /\ backend = <<>>
    /\ area = 0
    /\ result = NoResult

Init == Idle /\ fn = NoFn /\ Quiet

\* a point-analysis request arrives
StartPoint ==
    /\ pc = "idle"
    /\ pc' = "point_gate"
    /\ req' = [op |-> "point", geometry |-> NoGeometry, crs |-> "none"]
    /\ UNCHANGED <<calls, gate, got, backend, area, result, fn>>
    /\ UNCHANGED <<threads, disk>>

\* step 1: the membership query
PointGate ==
    /\ pc = "point_gate"
    /\ \E resp \in WfsAnswers :
         /\ calls' = Append(calls, WfsCall(resp))
         /\ gate' = validate_point_within_aoi(resp)
    /\ IF ~gate'.is_valid
       THEN /\ result' = PointDenied(gate')
            /\ pc' = "done"
       ELSE /\ result' = result
            /\ pc' = "point_sample"
    /\ UNCHANGED <<req, got, backend, area, fn>>
    /\ UNCHANGED <<threads, disk>>

\* step 2: one raster window per coverage, in the order UHI, LST, NDVI, NDBI
PointSample ==
    /\ pc = "point_sample"
    /\ Len(got) < Len(Coverages)
    /\ LET cov == Coverages[Len(got) + 1]
       IN \E resp \in AnswersFor(cov) :
            /\ calls' = Append(calls, WcsCall(cov, "window", resp))
            /\ got' = Append(got, fetch_pixel_value_from_wcs(resp))
    /\ pc' = IF Len(got) + 1 = Len(Coverages) THEN "point_finish"
             ELSE "point_sample"
    /\ UNCHANGED <<req, gate, backend, area, result, fn>>
    /\ UNCHANGED <<threads, disk>>

\* steps 3-5: required-data check, classification, recommendation
PointFinish ==
    /\ pc = "point_finish"
    /\ result' = PointOutcome(got[1], got[2], got[3], got[4])
    /\ pc' = "done"
    /\ UNCHANGED <<req, calls, gate, got, backend, area, fn>>
    /\ UNCHANGED <<threads, disk>>

\* an AOI-analysis request arrives
StartAoi ==
    /\ pc = "idle"
    /\ \E geometry \in Geometries, crs \in ReferenceSystems :
         req' = [op |-> "aoi", geometry |-> geometry, crs |-> crs]
    /\ pc' = "aoi_validate"
    /\ UNCHANGED <<calls, gate, got, backend, area, result, fn>>
    /\ UNCHANGED <<threads, disk>>

\* the request model validates the body before the handler runs
AoiValidate ==
    /\ pc = "aoi_validate"
    /\ IF RequestAccepted(req.geometry, req.crs)
       THEN /\ pc' = "aoi_prepare"
            /\ result' = result
       ELSE /\ pc' = "done"
            /\ result' = AoiError(422, [msg |-> "validation error", code |-> 0])
    /\ UNCHANGED <<req, calls, gate, got, backend, area, fn>>
    /\ UNCHANGED <<threads, disk>>

\* lines 1262-1305: parse the geometry, check the reference system, compute
\* the projected area
AoiPrepare ==
    /\ pc = "aoi_prepare"
    /\ IF ~req.geometry.parseable
       THEN /\ result' = AoiError(400, [msg |-> "Invalid geometry", code |-> 0])
            /\ pc' = "done"
            /\ area' = area
       ELSE IF req.crs # "EPSG:4326"
       THEN /\ result' = AoiError(400, [msg |-> "Invalid CRS", code |-> 0])
            /\ pc' = "done"
            /\ area' = area
       ELSE /\ area' = req.geometry.area_sq_m
            /\ pc' = "aoi_clip"
            /\ result' = result
    /\ UNCHANGED <<req, calls, gate, got, backend, fn>>
    /\ UNCHANGED <<threads, disk>>

AfterExtraction(n) == IF n = Len(Coverages) THEN "aoi_finish" ELSE "aoi_clip"

\* the answers of the raster source to the two requests of one extraction;
\* the bounding-box answer is distinguished only where the clip request did
\* not succeed
Dispositions(cov) ==
    {d \in [clip : AoiAnswersFor(cov), bbox : AoiBboxAnswersFor(cov)] :
        (d.clip.net = "ok" /\ d.clip.status = 200) => d.bbox = BboxDefault(cov)}

\* fetch_aoi_raster_from_wcs up to the answer to the clip request, per
\* coverage in the order UHI, LST, NDVI, NDBI
AoiClip ==
    /\ pc = "aoi_clip"
    /\ Len(got) < Len(Coverages)
    /\ LET cov == Coverages[Len(got) + 1]
       IN \E d \in Dispositions(cov) :
            /\ backend' = Append(backend, d)
            /\ IF ~req.geometry.parseable
               THEN /\ got' = Append(got,
                          fetch_aoi_raster_from_wcs(req.geometry, d.clip, d.bbox))
                    /\ pc' = AfterExtraction(Len(got) + 1)
                    /\ calls' = calls
               ELSE /\ calls' = Append(calls, WcsCall(cov, "clip", d.clip))
                    /\ IF NeedsBbox(d.clip)
                       THEN /\ pc' = "aoi_bbox"
                            /\ got' = got
                       ELSE /\ got' = Append(got,
                                  fetch_aoi_raster_from_wcs(req.geometry,
                                                            d.clip, d.bbox))
                            /\ pc' = AfterExtraction(Len(got) + 1)
    /\ UNCHANGED <<req, gate, area, result, fn>>
    /\ UNCHANGED <<threads, disk>>

\* fetch_aoi_raster_from_wcs from the bounding-box request on
AoiBbox ==
    /\ pc = "aoi_bbox"
    /\ LET cov == Coverages[Len(got) + 1]
           d == backend[Len(got) + 1]
       IN /\ calls' = Append(calls, WcsCall(cov, "bbox", d.bbox))
          /\ got' = Append(got,
                 fetch_aoi_raster_from_wcs(req.geometry, d.clip, d.bbox))
    /\ pc' = AfterExtraction(Len(got) + 1)
    /\ UNCHANGED <<req, backend, gate, area, result, fn>>
    /\ UNCHANGED <<threads, disk>>

\* lines 1324-1392: no-data terminus, statistics, distribution,
\* classification, recommendation
AoiFinish ==
    /\ pc = "aoi_finish"
    /\ result' = AoiOutcome(area, got[1], got[2], got[3], got[4])
    /\ pc' = "done"
    /\ UNCHANGED <<req, calls, gate, got, backend, area, fn>>
    /\ UNCHANGED <<threads, disk>>

\* the response is sent; nothing of the request is kept
Finish ==
    /\ pc = "done"
    /\ pc' = "idle"
    /\ req' = NoRequest
    /\ calls' = <<>>
    /\ gate' = NoGate
    /\ got' = <<>>
    /\ backend' = <<>>
    /\ area' = 0
    /\ result' = NoResult
    /\ UNCHANGED fn
    /\ UNCHANGED <<threads, disk>>

Next ==
    \/ StartPoint
    \/ PointGate
    \/ PointSample
    \/ PointFinish
    \/ StartAoi
    \/ AoiValidate
    \/ AoiPrepare
    \/ AoiClip
    \/ AoiBbox
    \/ AoiFinish
    \/ Finish

Spec == Init /\ [][Next]_vars

-----------------------------------------------------------------------------
(* The pure functions applied to inputs drawn from bounded sets *)

MaxTwice == 25         \* classifier inputs are the halves -1, -1/2, ..., MaxTwice/2

FloatInputs == {None, NaN, PosInf, NegInf} \cup {Frac(n, 2) : n \in -2..MaxTwice}

Labels == {"Unknown", "Low", "Moderate", "High", "Extreme", "low", ""}

OptionalInputs == {None, Num(45), Frac(-1, 4)}

\* hundredths of a percent around the three thresholds
MaxPixels == 3         \* valid pixels in an array handed to a function

\* values of valid pixels: masking leaves no NaN, it keeps the infinities
PixelValues ==
    {Num(0), Num(4), Num(5), Frac(19, 2), Num(10), Num(12), PosInf, NegInf}

\* Optional[np.ndarray] arguments: None, the empty array, non-empty arrays
PixelArrays == {NoPixels} \cup {Pixels(px) : px \in SeqUpTo(PixelValues, MaxPixels)}

PercentInputs == {0, 500, 1000, 2000, 2500, 3000, 3500, 3999, 4000, 4001, 4500,
                  5000, 6000, 7000, 7001, 8500, 10000}

\* rasters for the masking sites: no sentinel, a numeric one, NaN, an infinity
MaskSentinels == {None, Num(0), NaN, PosInf}
MaskRasters ==
    {Raster(c, n) : c \in SeqUpTo(CellValues, MaxCells), n \in MaskSentinels}

\* arguments of fetch_aoi_raster_from_wcs: the clip answer is read, or the
\* bounding-box answer after a rejected clip request
ExtractionInputs ==
    {[geometry |-> Geometry("Polygon", TRUE, TRUE, TRUE, FALSE, 2500400),
      clip_resp |-> c, bbox_resp |-> NetFail] : c \in MaskRasters \cup {NetFail}}
    \cup {[geometry |-> Geometry("Polygon", TRUE, TRUE, TRUE, FALSE, 2500400),
           clip_resp |-> HttpErr(500), bbox_resp |-> b] : b \in MaskRasters}

\* answers to the four requests of get_analytics_summary
SummaryAnswers == {NetFail, HttpErr(500), Raster(<<Num(0)>>, Num(0)),
                   Raster(<<Num(3), Num(7)>>, None)}

\* tier counts of a primary array: every split of 1..MaxCount pixels, and
\* splits of a few thousand pixels next to the 40, 60 and 70 percent marks
MaxCount == 4
LargeCounts == { <<2401, 0, 1601>>, <<2400, 0, 1600>>, <<1601, 2402, 0>>,
                 <<1405, 602, 0>>, <<1400, 600, 0>>, <<1000, 1000, 1000>>,
                 <<39, 1, 0>>, <<137, 0, 23>>, <<64, 93, 3>>,
                 <<11999, 0, 8001>> }
CountInputs ==
    {c \in (0..MaxCount) \X (0..MaxCount) \X (0..MaxCount) :
        c[1] + c[2] + c[3] \in 1..MaxCount}
    \cup LargeCounts

\* arg: the argument as the caller passed it; held: the array object passed,
\* with the values the calls made so far left in it; again: the results of
\* the further calls with that object; answered: the outbound requests of
\* the application answered so far
Input(name, arg) == [name |-> name, arg |-> arg, out |-> <<>>, applied |-> FALSE,
                     again |-> <<>>, answered |-> 0, held |-> arg]

\* projected areas in m^2; 500, 2500 and 10500 lie halfway between two
\* thousandths of a km^2
AreaInputs == {0, 499, 500, 501, 1500, 2500, 10500, 2500400, 2500500}

FnInputs ==
    {Input("classify_uhi", v) : v \in FloatInputs}
    \cup {Input("generate_recommendations", a) :
              a \in [lst : OptionalInputs, ndvi : OptionalInputs,
                     ndbi : OptionalInputs, uhi_label : Labels]}
    \cup {Input("get_location_analysis", a) :
              a \in [uhi_class : FloatInputs, lst : OptionalInputs,
                     ndvi : {None, Frac(1, 2)}, ndbi : {None, Frac(-1, 4)}]}
    \cup {Input("generate_aoi_recommendations",
                [uhi_distribution |->
                    [NoDistribution EXCEPT !.percentage_high = h,
                                           !.percentage_moderate = m,
                                           !.percentage_low = l],
                 area_sq_km |-> 2500400]) :
              h \in PercentInputs, m \in PercentInputs, l \in PercentInputs}
    \cup {Input("analyze_uhi_class_distribution", a) : a \in PixelArrays}
    \cup {Input("compute_aoi_statistics", a) : a \in PixelArrays}
    \cup {Input("compute_raster_stats", a) : a \in WcsAnswers \cup MaskRasters}
    \cup {Input("compute_raster_stats_with_bbox", a) :
              a \in WcsAnswers \cup MaskRasters}
    \cup {Input("fetch_pixel_value_from_wcs", a) :
              a \in WcsAnswers \cup MaskRasters}
    \cup {Input("fetch_aoi_raster_from_wcs", a) : a \in ExtractionInputs}
    \cup {Input("get_analytics_summary", a) : a \in [1..4 -> SummaryAnswers]}
    \cup {Input("analyze_aoi", a) : a \in CountInputs}
    \cup {Input("analyze_aoi_no_data", a) : a \in AreaInputs}

InitFn == Idle /\ fn \in FnInputs /\ Quiet

Apply(name, out) ==
    /\ fn.name = name
    /\ ~fn.applied
    /\ fn' = [fn EXCEPT !.out = out, !.applied = TRUE]
    /\ UNCHANGED <<pc, req, calls, gate, got, backend, area, result>>
    /\ UNCHANGED <<threads, disk>>

ApplyClassifyUhi == Apply("classify_uhi", classify_uhi(fn.arg))

ApplyGenerateRecommendations ==
    Apply("generate_recommendations",
          generate_recommendations(fn.arg.lst, fn.arg.ndvi, fn.arg.ndbi,
                                   fn.arg.uhi_label))

\* steps 3-5 of get_location_analysis on given samples
ApplyPointOutcome ==
    Apply("get_location_analysis",
          PointOutcome(fn.arg.uhi_class, fn.arg.lst, fn.arg.ndvi, fn.arg.ndbi))

ApplyGenerateAoiRecommendations ==
    Apply("generate_aoi_recommendations",
          generate_aoi_recommendations(fn.arg.uhi_distribution,
                                       fn.arg.area_sq_km))

\* the function is called with the array object the caller holds
ApplyAnalyzeUhiClassDistribution ==
    /\ fn.name = "analyze_uhi_class_distribution"
    /\ ~fn.applied
    /\ fn' = [fn EXCEPT !.out = analyze_uhi_class_distribution(fn.held),
                        !.held = uhi_pixels_after(fn.held),
                        !.applied = TRUE]
    /\ UNCHANGED <<pc, req, calls, gate, got, backend, area, result>>
    /\ UNCHANGED <<threads, disk>>

\* the function is called once more with the same array object, as the
\* first call left it
ApplyAnalyzeUhiClassDistributionAgain ==
    /\ fn.name = "analyze_uhi_class_distribution"
    /\ fn.applied
    /\ Len(fn.again) = 0
    /\ fn' = [fn EXCEPT !.again = <<analyze_uhi_class_distribution(fn.held)>>,
                        !.held = uhi_pixels_after(fn.held)]
    /\ UNCHANGED <<pc, req, calls, gate, got, backend, area, result>>
    /\ UNCHANGED <<threads, disk>>

ApplyComputeAoiStatistics ==
    Apply("compute_aoi_statistics", compute_aoi_statistics(fn.arg))

ApplyComputeRasterStats ==
    Apply("compute_raster_stats", compute_raster_stats(fn.arg))

ApplyComputeRasterStatsWithBbox ==
    Apply("compute_raster_stats_with_bbox",
          compute_raster_stats_with_bbox(fn.arg))

ApplyFetchPixelValueFromWcs ==
    Apply("fetch_pixel_value_from_wcs", fetch_pixel_value_from_wcs(fn.arg))

\* lines 606-652: the geometry is converted and the clip request returns;
\* unless it was answered with a status other than 200 the function returns
ApplyFetchAoiRasterFromWcs ==
    /\ fn.name = "fetch_aoi_raster_from_wcs"
    /\ ~fn.applied
    /\ fn.answered = 0
    /\ fn' = IF fn.arg.geometry.parseable /\ NeedsBbox(fn.arg.clip_resp)
             THEN [fn EXCEPT !.answered = 1]
             ELSE [fn EXCEPT
                     !.answered = IF fn.arg.geometry.parseable THEN 1 ELSE 0,
                     !.out = fetch_aoi_raster_from_wcs(fn.arg.geometry,
                                 fn.arg.clip_resp, fn.arg.bbox_resp),
                     !.applied = TRUE]
    /\ UNCHANGED <<pc, req, calls, gate, got, backend, area, result>>
    /\ UNCHANGED <<threads, disk>>

\* lines 654-694: the bounding-box request returns and the function with it
ApplyFetchAoiRasterFromWcsBbox ==
    /\ fn.name = "fetch_aoi_raster_from_wcs"
    /\ ~fn.applied
    /\ fn.answered = 1
    /\ fn' = [fn EXCEPT
                !.answered = 2,
                !.out = fetch_aoi_raster_from_wcs(fn.arg.geometry,
                            fn.arg.clip_resp, fn.arg.bbox_resp),
                !.applied = TRUE]
    /\ UNCHANGED <<pc, req, calls, gate, got, backend, area, result>>
    /\ UNCHANGED <<threads, disk>>

\* one pass of the loop of get_analytics_summary: the request for the next
\* layer returns; after the fourth the handler returns
ApplyGetAnalyticsSummary ==
    /\ fn.name = "get_analytics_summary"
    /\ ~fn.applied
    /\ fn.answered < Len(Layers)
    /\ fn' = IF fn.answered + 1 < Len(Layers)
             THEN [fn EXCEPT !.answered = @ + 1]
             ELSE [fn EXCEPT !.answered = @ + 1,
                             !.out = get_analytics_summary(fn.arg),
                             !.applied = TRUE]
    /\ UNCHANGED <<pc, req, calls, gate, got, backend, area, result>>
    /\ UNCHANGED <<threads, disk>>

\* the distribution and zone steps of analyze_aoi on given tier counts
ApplyAoiZoneOfCounts ==
    Apply("analyze_aoi",
          AoiZoneOfCounts(fn.arg[1], fn.arg[2], fn.arg[3], 2500400))

\* the no_data answer of analyze_aoi for a given projected area
ApplyAoiNoData == Apply("analyze_aoi_no_data", AoiNoData(fn.arg))

NextFn ==
    \/ ApplyClassifyUhi
    \/ ApplyGenerateRecommendations
    \/ ApplyPointOutcome
    \/ ApplyGenerateAoiRecommendations
    \/ ApplyAnalyzeUhiClassDistribution
    \/ ApplyAnalyzeUhiClassDistributionAgain
    \/ ApplyComputeAoiStatistics
    \/ ApplyComputeRasterStats
    \/ ApplyComputeRasterStatsWithBbox
    \/ ApplyFetchPixelValueFromWcs
    \/ ApplyFetchAoiRasterFromWcs
    \/ ApplyFetchAoiRasterFromWcsBbox
    \/ ApplyGetAnalyticsSummary
    \/ ApplyAoiZoneOfCounts
    \/ ApplyAoiNoData

SpecFn == InitFn /\ [][NextFn]_vars

Applied(name) == fn.name = name /\ fn.applied

-----------------------------------------------------------------------------
(* Concurrent requests.  Every worker serves one request on its own local  *)
(* state; the file system is the only state that outlives a request.  The  *)
(* steps are those of the handlers above, cut at the outbound requests.    *)

SysWfsAnswers == {WfsNetFail, WfsHttp(404), WfsFeatures(0), WfsFeatures(1)}

SysAnswersFor(cov) ==
    IF cov = "thodupuzha__UHI"
    THEN {NetFail, HttpErr(500), Raster(<<Num(0)>>, Num(0)),
          Raster(<<Num(3), Num(12)>>, None)}
    ELSE {NetFail, Raster(<<Num(3)>>, None)}

SysBboxAnswersFor(cov) == {NetFail, Raster(<<Num(3), Num(12)>>, None)}

SysSummaryAnswers == {NetFail, Raster(<<Num(3)>>, None)}

SysGeometries ==
    { Geometry("Polygon", TRUE, TRUE, TRUE, FALSE, 2500400),
      Geometry("Point", TRUE, TRUE, TRUE, FALSE, 0) }

\* archives that fail at each check of the upload handler, and one that passes
ValidArchive ==
    Archive(TRUE, "none", "none", TRUE, TRUE, TRUE, 1, 1,
            Geometry("Polygon", TRUE, TRUE, TRUE, FALSE, 2500400))

EmptyArchive ==
    Archive(TRUE, "none", "none", TRUE, TRUE, TRUE, 0, 0, NoGeometry)

SysArchives ==
    { Archive(FALSE, "BadZipFile", "none", FALSE, FALSE, FALSE, 0, 0, NoGeometry),
      Archive(TRUE, "BadZipFile", "none", FALSE, FALSE, FALSE, 0, 0, NoGeometry),
      Archive(TRUE, "other", "none", FALSE, FALSE, FALSE, 0, 0, NoGeometry),
      Archive(TRUE, "none", "BadZipFile", TRUE, TRUE, TRUE, 1, 1,
              Geometry("Polygon", TRUE, TRUE, TRUE, FALSE, 2500400)),
      Archive(TRUE, "none", "other", TRUE, TRUE, TRUE, 1, 1,
              Geometry("Polygon", TRUE, TRUE, TRUE, FALSE, 2500400)),
      Archive(TRUE, "none", "none", FALSE, FALSE, FALSE, 0, 0, NoGeometry),
      Archive(TRUE, "none", "none", TRUE, FALSE, FALSE, 0, 0, NoGeometry),
      Archive(TRUE, "none", "none", TRUE, TRUE, FALSE, 0, 0, NoGeometry),
      EmptyArchive,
      Archive(TRUE, "none", "none", TRUE, TRUE, TRUE, 1, 1,
              Geometry("LineString", TRUE, TRUE, TRUE, FALSE, 0)),
      Archive(TRUE, "none", "none", TRUE, TRUE, TRUE, 1, 1,
              Geometry("Polygon", TRUE, TRUE, FALSE, FALSE, 0)),
      Archive(TRUE, "none", "none", TRUE, TRUE, TRUE, 1, 1,
              Geometry("Polygon", TRUE, TRUE, TRUE, TRUE, 0)),
      ValidArchive }

\* the calls of the upload handler that may raise
Faults == {"read", "mkdtemp", "makedirs", "move", "icacls", "to_crs"}

\* uploads: every archive on a system whose calls succeed, with and without
\* a failing rmtree; an archive without features and a complete one with
\* each call failing in turn
SysUploads ==
    {[file |-> f, env |-> Env("none", ok)] : f \in SysArchives, ok \in BOOLEAN}
    \cup {[file |-> f, env |-> Env(fault, ok)] :
              f \in {EmptyArchive, ValidArchive}, fault \in Faults,
              ok \in BOOLEAN}

\* layer names asked of get_layer_stats: one of the four layers, and a name
\* the map server has no coverage for
SysLayerNames == {"LST", "SOIL"}

\* coverage ids requested by get_analytics_summary, in the order of Layers
SummaryCoverages == << "thodupuzha__LST", "thodupuzha__NDVI",
                       "thodupuzha__NDBI", "thodupuzha__UHI" >>

\* worker t continues with the local state th
Put(t, th) == threads' = [threads EXCEPT ![t] = th]

\* the HTTP error response of the upload endpoint
UploadError(http, error) == [op |-> "upload", http |-> http, error |-> error]

\* the response of the except Exception clause, lines 1655-1663
UploadFailed ==
    UploadError(500, [msg |-> "Failed to process shapefile", code |-> 0])

\* lines 1624-1643: the analysis result with the upload metadata
UploadBody(r, unique_id) ==
    [op |-> "upload", http |-> 200, analysis |-> r, layer_name |-> unique_id,
     dominant_uhi_class |->
        IF r.status = "success" THEN r.uhi_distribution.dominant_class
        ELSE "None"]

\* where a worker goes when analyze_aoi returns or raises: the upload handler
\* still has its finally clause to run
Exit(op) == IF op = "upload" THEN "upload_cleanup" ELSE "done"

StartPointT(t) ==
    /\ threads[t].pc = "idle"
    /\ Put(t, [threads[t] EXCEPT !.pc = "point_gate", !.req.op = "point"])
    /\ UNCHANGED disk
    /\ UNCHANGED <<pc, req, calls, gate, got, backend, area, result, fn>>

PointGateT(t) ==
    /\ threads[t].pc = "point_gate"
    /\ \E resp \in SysWfsAnswers :
         LET g == validate_point_within_aoi(resp)
         IN Put(t, [threads[t] EXCEPT
                       !.calls = Append(@, WfsCall(resp)),
                       !.gate = g,
                       !.result = IF g.is_valid THEN @ ELSE PointDenied(g),
                       !.pc = IF g.is_valid THEN "point_sample" ELSE "done"])
    /\ UNCHANGED disk
    /\ UNCHANGED <<pc, req, calls, gate, got, backend, area, result, fn>>

\* variant: requests.get without a timeout, an unanswered request never
\* returns
PointSampleT_notimeout(t) ==
    /\ threads[t].pc = "point_sample"
    /\ Len(threads[t].got) < Len(Coverages)
    /\ LET cov == Coverages[Len(threads[t].got) + 1]
       IN \E resp \in SysAnswersFor(cov) :
            IF resp.net = "fail"
            THEN Put(t, [threads[t] EXCEPT !.pc = "waiting"])
            ELSE Put(t, [threads[t] EXCEPT
                          !.calls = Append(@, WcsCall(cov, "window", resp)),
                          !.got = Append(@, fetch_pixel_value_from_wcs(resp)),
                          !.pc = IF Len(threads[t].got) + 1 = Len(Coverages)
                                 THEN "point_finish" ELSE "point_sample"])
    /\ UNCHANGED disk
    /\ UNCHANGED <<pc, req, calls, gate, got, backend, area, result, fn>>

\* variant: a sample another request already holds for the coverage is used
\* instead of the answer to the own request
PointSampleT_shared(t) ==
    /\ threads[t].pc = "point_sample"
    /\ Len(threads[t].got) < Len(Coverages)
    /\ LET k == Len(threads[t].got) + 1
           cov == Coverages[k]
           holders == {u \in Threads \ {t} :
                          threads[u].req.op = "point" /\ Len(threads[u].got) >= k}
       IN \E resp \in SysAnswersFor(cov) :
            Put(t, [threads[t] EXCEPT
                      !.calls = Append(@, WcsCall(cov, "window", resp)),
                      !.got = Append(@,
                          IF holders # {}
                          THEN threads[CHOOSE u \in holders : TRUE].got[k]
                          ELSE fetch_pixel_value_from_wcs(resp)),
                      !.pc = IF k = Len(Coverages)
                             THEN "point_finish" ELSE "point_sample"])
    /\ UNCHANGED disk
    /\ UNCHANGED <<pc, req, calls, gate, got, backend, area, result, fn>>

PointSampleT(t) ==
    /\ threads[t].pc = "point_sample"
    /\ Len(threads[t].got) < Len(Coverages)
    /\ LET cov == Coverages[Len(threads[t].got) + 1]
       IN \E resp \in SysAnswersFor(cov) :
            Put(t, [threads[t] EXCEPT
                      !.calls = Append(@, WcsCall(cov, "window", resp)),
                      !.got = Append(@, fetch_pixel_value_from_wcs(resp)),
                      !.pc = IF Len(threads[t].got) + 1 = Len(Coverages)
                             THEN "point_finish" ELSE "point_sample"])
    /\ UNCHANGED disk
    /\ UNCHANGED <<pc, req, calls, gate, got, backend, area, result, fn>>

PointFinishT(t) ==
    /\ threads[t].pc = "point_finish"
    /\ LET g == threads[t].got
       IN Put(t, [threads[t] EXCEPT
                    !.result = PointOutcome(g[1], g[2], g[3], g[4]),
                    !.pc = "done"])
    /\ UNCHANGED disk
    /\ UNCHANGED <<pc, req, calls, gate, got, backend, area, result, fn>>

StartAoiT(t) ==
    /\ threads[t].pc = "idle"
    /\ \E geometry \in SysGeometries :
         Put(t, [threads[t] EXCEPT !.pc = "aoi_validate", !.req.op = "aoi",
                                   !.req.geometry = geometry,
                                   !.req.crs = "EPSG:4326"])
    /\ UNCHANGED disk
    /\ UNCHANGED <<pc, req, calls, gate, got, backend, area, result, fn>>

\* AOIAnalysisRequest is built: by the framework for the AOI endpoint (422
\* when rejected), by the upload handler itself at lines 1612-1616 (the
\* ValidationError ends in its except Exception clause)
AoiValidateT(t) ==
    /\ threads[t].pc = "aoi_validate"
    /\ LET r == threads[t].req
       IN IF RequestAccepted(r.geometry, r.crs)
          THEN Put(t, [threads[t] EXCEPT !.pc = "aoi_prepare"])
          ELSE IF r.op = "upload"
          THEN Put(t, [threads[t] EXCEPT
                         !.pc = "upload_cleanup",
                         !.result = UploadFailed])
          ELSE Put(t, [threads[t] EXCEPT
                         !.pc = "done",
                         !.result = AoiError(422,
                             [msg |-> "validation error", code |-> 0])])
    /\ UNCHANGED disk
    /\ UNCHANGED <<pc, req, calls, gate, got, backend, area, result, fn>>

AoiPrepareT(t) ==
    /\ threads[t].pc = "aoi_prepare"
    /\ LET r == threads[t].req
       IN IF ~r.geometry.parseable
          THEN Put(t, [threads[t] EXCEPT
                         !.pc = Exit(r.op),
                         !.result = AoiError(400,
                             [msg |-> "Invalid geometry", code |-> 0])])
          ELSE IF r.crs # "EPSG:4326"
          THEN Put(t, [threads[t] EXCEPT
                         !.pc = Exit(r.op),
                         !.result = AoiError(400,
                             [msg |-> "Invalid CRS", code |-> 0])])
          ELSE Put(t, [threads[t] EXCEPT !.pc = "aoi_clip",
                                         !.area = r.geometry.area_sq_m])
    /\ UNCHANGED disk
    /\ UNCHANGED <<pc, req, calls, gate, got, backend, area, result, fn>>

AoiClipT(t) ==
    /\ threads[t].pc = "aoi_clip"
    /\ Len(threads[t].got) < Len(Coverages)
    /\ LET cov == Coverages[Len(threads[t].got) + 1]
           geometry == threads[t].req.geometry
       IN \E resp \in SysAnswersFor(cov) :
            IF NeedsBbox(resp)
            THEN Put(t, [threads[t] EXCEPT
                           !.calls = Append(@, WcsCall(cov, "clip", resp)),
                           !.pc = "aoi_bbox"])
            ELSE Put(t, [threads[t] EXCEPT
                           !.calls = Append(@, WcsCall(cov, "clip", resp)),
                           !.got = Append(@,
                               fetch_aoi_raster_from_wcs(geometry, resp, NetFail)),
                           !.pc = AfterExtraction(Len(threads[t].got) + 1)])
    /\ UNCHANGED disk
    /\ UNCHANGED <<pc, req, calls, gate, got, backend, area, result, fn>>

AoiBboxT(t) ==
    /\ threads[t].pc = "aoi_bbox"
    /\ LET cov == Coverages[Len(threads[t].got) + 1]
           geometry == threads[t].req.geometry
           clip_resp == threads[t].calls[Len(threads[t].calls)].answer
       IN \E resp \in SysBboxAnswersFor(cov) :
            Put(t, [threads[t] EXCEPT
                      !.calls = Append(@, WcsCall(cov, "bbox", resp)),
                      !.got = Append(@,
                          fetch_aoi_raster_from_wcs(geometry, clip_resp, resp)),
                      !.pc = AfterExtraction(Len(threads[t].got) + 1)])
    /\ UNCHANGED disk
    /\ UNCHANGED <<pc, req, calls, gate, got, backend, area, result, fn>>

AoiFinishT(t) ==
    /\ threads[t].pc = "aoi_finish"
    /\ LET g == threads[t].got
           r == AoiOutcome(threads[t].area, g[1], g[2], g[3], g[4])
           op == threads[t].req.op
       IN Put(t, [threads[t] EXCEPT
                    !.result = IF op = "upload" THEN UploadBody(r, t) ELSE r,
                    !.pc = Exit(op)])
    /\ UNCHANGED disk
    /\ UNCHANGED <<pc, req, calls, gate, got, backend, area, result, fn>>

StartSummaryT(t) ==
    /\ threads[t].pc = "idle"
    /\ Put(t, [threads[t] EXCEPT !.pc = "summary_layer", !.req.op = "summary"])
    /\ UNCHANGED disk
    /\ UNCHANGED <<pc, req, calls, gate, got, backend, area, result, fn>>

\* one pass of the loop of get_analytics_summary: compute_raster_stats issues
\* its request for the next layer
SummaryLayerT(t) ==
    /\ threads[t].pc = "summary_layer"
    /\ Len(threads[t].calls) < Len(Layers)
    /\ LET cov == SummaryCoverages[Len(threads[t].calls) + 1]
       IN \E resp \in SysSummaryAnswers :
            Put(t, [threads[t] EXCEPT
                      !.calls = Append(@, WcsCall(cov, "coverage", resp)),
                      !.pc = IF Len(threads[t].calls) + 1 = Len(Layers)
                             THEN "summary_finish" ELSE "summary_layer"])
    /\ UNCHANGED disk
    /\ UNCHANGED <<pc, req, calls, gate, got, backend, area, result, fn>>

SummaryFinishT(t) ==
    /\ threads[t].pc = "summary_finish"
    /\ Put(t, [threads[t] EXCEPT
                 !.result = get_analytics_summary(
                                [i \in 1..4 |-> threads[t].calls[i].answer]),
                 !.pc = "done"])
    /\ UNCHANGED disk
    /\ UNCHANGED <<pc, req, calls, gate, got, backend, area, result, fn>>

StartLayerT(t) ==
    /\ threads[t].pc = "idle"
    /\ \E layer_name \in SysLayerNames :
         Put(t, [threads[t] EXCEPT !.pc = "layer_stats", !.req.op = "layer",
                                   !.req.layer_name = layer_name])
    /\ UNCHANGED disk
    /\ UNCHANGED <<pc, req, calls, gate, got, backend, area, result, fn>>

\* lines 260-275: the request of compute_raster_stats returns and the handler
\* answers
LayerStatsT(t) ==
    /\ threads[t].pc = "layer_stats"
    /\ LET layer_name == threads[t].req.layer_name
       IN \E resp \in SysSummaryAnswers :
            Put(t, [threads[t] EXCEPT
                      !.calls = Append(@, WcsCall(LayerCoverage(layer_name),
                                                  "coverage", resp)),
                      !.result = get_layer_stats(layer_name, resp),
                      !.pc = "done"])
    /\ UNCHANGED disk
    /\ UNCHANGED <<pc, req, calls, gate, got, backend, area, result, fn>>

\* the first failing check of lines 1449-1548 on an archive; the clauses
\* except zipfile.BadZipFile and except Exception enclose both ZipFile() and
\* extractall
ReceiveError(file) ==
    IF ~file.zip_name THEN "Invalid file type"
    ELSE IF file.zipfile = "BadZipFile" THEN "Invalid zip file"
    ELSE IF file.zipfile # "none" THEN "Failed to extract zip"
    ELSE IF file.extractall = "BadZipFile" THEN "Invalid zip file"
    ELSE IF file.extractall # "none" THEN "Failed to extract zip"
    ELSE IF ~file.has_shp THEN "No shapefile found"
    ELSE IF ~file.has_components THEN "Incomplete shapefile"
    ELSE IF ~file.readable THEN "Failed to read shapefile"
    ELSE "none"

\* lines 1438-1462: the upload arrives; a file name without .zip is answered
\* before anything is read, otherwise the handler awaits file.read()
StartUploadT(t) ==
    /\ threads[t].pc = "idle"
    /\ \E u \in SysUploads :
         IF ~u.file.zip_name
         THEN Put(t, [threads[t] EXCEPT
                        !.pc = "upload_cleanup", !.req.op = "upload",
                        !.req.file = u.file, !.req.crs = "EPSG:4326",
                        !.env = u.env,
                        !.result = UploadError(400,
                            [msg |-> ReceiveError(u.file), code |-> 0])])
         ELSE Put(t, [threads[t] EXCEPT
                        !.pc = "upload_receive", !.req.op = "upload",
                        !.req.file = u.file, !.req.crs = "EPSG:4326",
                        !.env = u.env])
    /\ UNCHANGED disk
    /\ UNCHANGED <<pc, req, calls, gate, got, backend, area, result, fn>>

\* lines 1462-1548: file.read() returns; mkdtemp, extraction, component
\* checks, gpd.read_file.  When file.read() or mkdtemp raises, the except
\* Exception clause answers before an extraction directory exists
UploadReceiveT(t) ==
    /\ threads[t].pc = "upload_receive"
    /\ LET file == threads[t].req.file
           error == ReceiveError(file)
       IN IF threads[t].env.fault \in {"read", "mkdtemp"}
          THEN /\ disk' = disk
               /\ Put(t, [threads[t] EXCEPT !.pc = "upload_cleanup",
                                            !.result = UploadFailed])
          ELSE /\ disk' = [disk EXCEPT !.temp = @ \cup {t}]
               /\ IF error # "none"
                  THEN Put(t, [threads[t] EXCEPT
                                 !.pc = "upload_cleanup",
                                 !.result = UploadError(400,
                                                [msg |-> error, code |-> 0])])
                  ELSE Put(t, [threads[t] EXCEPT !.pc = "upload_move"])
    /\ UNCHANGED <<pc, req, calls, gate, got, backend, area, result, fn>>

\* the first failing check of lines 1555-1608 on the features read
FeatureError(file) ==
    IF file.features = 0 THEN "Empty shapefile"
    ELSE IF file.dissolved = 0 THEN "Geometry processing failed"
    ELSE IF file.geometry.type \notin {"Polygon", "MultiPolygon"}
    THEN "Invalid geometry type"
    ELSE IF ~file.geometry.is_valid THEN "Invalid geometry"
    ELSE "none"

\* lines 70-78 of move_shapefile_to_geoserver: the directory is created and
\* the components are moved into it.  os.makedirs or shutil.move may raise
\* (HTTP 500 by the except Exception clause of the handler); after a failed
\* makedirs there is no directory
UploadMoveT(t) ==
    /\ threads[t].pc = "upload_move"
    /\ LET fault == threads[t].env.fault
       IN /\ disk' = IF fault = "makedirs" THEN disk
                     ELSE [disk EXCEPT !.uploads = @ \cup {t}]
          /\ IF fault \in {"makedirs", "move"}
             THEN Put(t, [threads[t] EXCEPT !.pc = "upload_cleanup",
                                           !.result = UploadFailed])
             ELSE Put(t, [threads[t] EXCEPT !.pc = "upload_icacls"])
    /\ UNCHANGED <<pc, req, calls, gate, got, backend, area, result, fn>>

\* line 81 and lines 1551-1610: subprocess.run returns when icacls exits
\* (check=True raises on a non-zero exit status); then the checks on the
\* features read before, with the reprojection after the first of them
UploadIcaclsT(t) ==
    /\ threads[t].pc = "upload_icacls"
    /\ LET file == threads[t].req.file
           fault == threads[t].env.fault
           error == FeatureError(file)
       IN IF fault = "icacls"
          THEN Put(t, [threads[t] EXCEPT !.pc = "upload_cleanup",
                                        !.result = UploadFailed])
          ELSE IF error = "Empty shapefile"
          THEN Put(t, [threads[t] EXCEPT
                         !.pc = "upload_cleanup",
                         !.result = UploadError(400,
                                        [msg |-> error, code |-> 0])])
          ELSE IF fault = "to_crs"
          THEN Put(t, [threads[t] EXCEPT !.pc = "upload_cleanup",
                                        !.result = UploadFailed])
          ELSE IF error # "none"
          THEN Put(t, [threads[t] EXCEPT
                         !.pc = "upload_cleanup",
                         !.result = UploadError(400,
                                        [msg |-> error, code |-> 0])])
          ELSE Put(t, [threads[t] EXCEPT !.pc = "aoi_validate",
                                         !.req.geometry = file.geometry])
    /\ UNCHANGED disk
    /\ UNCHANGED <<pc, req, calls, gate, got, backend, area, result, fn>>

\* variant: the finally clause leaves the extraction directory in place
UploadCleanupT_keep(t) ==
    /\ threads[t].pc = "upload_cleanup"
    /\ Put(t, [threads[t] EXCEPT !.pc = "done"])
    /\ UNCHANGED disk
    /\ UNCHANGED <<pc, req, calls, gate, got, backend, area, result, fn>>

\* lines 1665-1672, the finally clause: the extraction directory is removed
\* if it exists; a failure of shutil.rmtree is logged and dropped
UploadCleanupT(t) ==
    /\ threads[t].pc = "upload_cleanup"
    /\ Put(t, [threads[t] EXCEPT !.pc = "done"])
    /\ disk' = IF t \in disk.temp /\ threads[t].env.rmtree_ok
               THEN [disk EXCEPT !.temp = @ \ {t}]
               ELSE disk
    /\ UNCHANGED <<pc, req, calls, gate, got, backend, area, result, fn>>

\* the steps of worker t
Run(t) ==
    \/ StartPointT(t)
    \/ PointGateT(t)
    \/ PointSampleT(t)
    \/ PointFinishT(t)
    \/ StartAoiT(t)
    \/ AoiValidateT(t)
    \/ AoiPrepareT(t)
    \/ AoiClipT(t)
    \/ AoiBboxT(t)
    \/ AoiFinishT(t)
    \/ StartSummaryT(t)
    \/ SummaryLayerT(t)
    \/ SummaryFinishT(t)
    \/ StartLayerT(t)
    \/ LayerStatsT(t)
    \/ StartUploadT(t)
    \/ UploadReceiveT(t)
    \/ UploadMoveT(t)
    \/ UploadIcaclsT(t)
    \/ UploadCleanupT(t)

NextSys == \E t \in Threads : Run(t)

SpecSys == Init /\ [][NextSys]_vars

\* the waits of worker t that have no time limit: file.read() of the upload
\* (line 1462) and subprocess.run of icacls, called without timeout= (line 81)
Unbounded(t) == threads[t].pc \in {"upload_receive", "upload_icacls"}

\* one request served: the worker that serves it (a thread of the pool, or
\* the event loop for the upload handler) keeps being scheduled, and every
\* outbound request returns, with an answer or with the exception of its
\* timeout (requests.get is called with timeout=).  A wait without a time
\* limit may last forever
NextLive == Run(1)

SpecLive == Init /\ [][NextLive]_vars /\ WF_vars(NextLive /\ ~Unbounded(1))

-----------------------------------------------------------------------------
(* Properties *)

\* the answer the membership query of the request received
GateAnswered == Len(calls) >= 1 /\ calls[1].service = "WFS"
GateAnswer == calls[1].answer
LayerUnavailable(a) == a.net = "ok" /\ a.status \in {400, 404}

RasterRequests == {i \in 1..Len(calls) : calls[i].service = "WCS"}

PointDone == pc = "done" /\ req.op = "point"
AoiDone == pc = "done" /\ req.op = "aoi"

\* C1: whenever the membership service answers 400 or 404 the gate returns
\* Allowed (is_valid true, no message) and the point pipeline goes on to
\* sample the rasters: it is sampling, or has issued the four raster requests
\* and ended with an HTTP 200 body, never with a rejection.
C1_LayerUnavailableIsAllowed ==
    (GateAnswered /\ LayerUnavailable(GateAnswer)) =>
        /\ gate = Allowed
        /\ gate.is_valid /\ gate.error_message = NoMessage
        /\ pc \in {"point_sample", "point_finish", "done"}
        /\ pc = "point_sample" => Cardinality(RasterRequests) = Len(got)
        /\ pc \in {"point_finish", "done"} => Cardinality(RasterRequests) = 4
        /\ pc = "done" => PointTerminal(result) # "rejected"

C1_Witness ==
    /\ PointDone
    /\ GateAnswered /\ GateAnswer.net = "ok" /\ GateAnswer.status = 404
    /\ result.http = 200 /\ result.data_status = "ok"

\* C2: for every answer of the membership service other than 400/404 the gate
\* returns Allowed iff the answer is a 200 with at least one feature; a 200
\* with zero features, any other status and a network failure are Denied
\* with a non-empty reason.
C2_GateDecisionTable ==
    (GateAnswered /\ ~LayerUnavailable(GateAnswer)) =>
        LET a == GateAnswer
        IN /\ gate.is_valid <=>
                (a.net = "ok" /\ a.status = 200 /\ a.body = "collection"
                 /\ a.features > 0)
           /\ gate.is_valid => gate = Allowed
           /\ ~gate.is_valid => gate.error_message \notin {NoMessage, NoGate.error_message}
           /\ (a.net = "ok" /\ a.status = 200 /\ a.body = "collection"
               /\ a.features = 0) => gate = Denied(MsgOutside)
           /\ (a.net = "ok" /\ a.status # 200) => gate = Denied(MsgWfsHttp(a.status))
           /\ a.net = "fail" => gate = Denied(MsgConnect)

C2_Witness ==
    /\ GateAnswered
    /\ GateAnswer.net = "ok" /\ GateAnswer.status = 200
    /\ GateAnswer.body = "collection" /\ GateAnswer.features = 0
    /\ gate = Denied(MsgOutside)

\* C3: whenever the gate returns Denied the point pipeline is in the rejected
\* terminal state carrying the gate's reason unchanged, and no raster-source
\* request has been issued for the request.
C3_DeniedRejectsWithoutSampling ==
    (gate # NoGate /\ ~gate.is_valid) =>
        /\ pc = "done"
        /\ PointTerminal(result) = "rejected"
        /\ result.error = gate.error_message
        /\ RasterRequests = {}
        /\ got = <<>>

C3_Witness ==
    /\ PointDone
    /\ gate = Denied(MsgWfsHttp(503))
    /\ result.http = 400 /\ result.error = MsgWfsHttp(503)
    /\ Len(calls) = 1

\* C4: whenever the gate is Allowed and the primary (UHI) sample is null the
\* pipeline ends normally (HTTP 200) with data_status outside_coverage, label
\* Unknown, uhi_class null, no recommendation, and lst, ndvi, ndbi exactly as
\* sampled.
C4_NullPrimaryIsOutsideCoverage ==
    (PointDone /\ gate.is_valid /\ IsNone(got[1])) =>
        /\ result.http = 200
        /\ result.data_status = "outside_coverage"
        /\ result.uhi_label = "Unknown"
        /\ result.uhi_class = None
        /\ result.recommendations = <<>>
        /\ result.lst = fetch_pixel_value_from_wcs(calls[3].answer)
        /\ result.ndvi = fetch_pixel_value_from_wcs(calls[4].answer)
        /\ result.ndbi = fetch_pixel_value_from_wcs(calls[5].answer)
        /\ <<result.lst, result.ndvi, result.ndbi>> = <<got[2], got[3], got[4]>>

C4_Witness ==
    /\ PointDone /\ gate.is_valid
    /\ calls[2].answer.net = "ok" /\ calls[2].answer.status = 200
    /\ calls[2].answer.readable /\ Len(calls[2].answer.cells) > 0
    /\ IsNone(got[1])
    /\ ~IsNone(got[2]) /\ IsNone(got[3])
    /\ result.data_status = "outside_coverage" /\ result.lst = got[2]

\* a sampling failure: non-success status, network failure, unreadable raster
SamplingFailed(a) == a.net = "fail" \/ a.status # 200 \/ ~a.readable

\* C5: a sampling failure on the required (UHI) coverage is treated as a null
\* sample: the pipeline ends in outside_coverage, never in service_error
\* (HTTP 503) or an internal error (HTTP 500).
C5_PrimaryFailureIsOutsideCoverage ==
    (PointDone /\ Len(calls) >= 2 /\ SamplingFailed(calls[2].answer)) =>
        /\ IsNone(got[1])
        /\ PointTerminal(result) = "outside_coverage"
        /\ result.http \notin {500, 503}

C5_Witness ==
    /\ PointDone /\ Len(calls) = 5
    /\ calls[2].answer = HttpErr(500)
    /\ PointTerminal(result) = "outside_coverage"

\* C6: a connectivity failure of the gate's own membership query ends the
\* point pipeline in service_error (HTTP 503), and nothing else does.
C6_GateConnectivityEscalates ==
    PointDone =>
        (PointTerminal(result) = "service_error"
            <=> (GateAnswered /\ GateAnswer.net = "fail"))

\* C7: classify_uhi is total: null -> Unknown with uhi_class null; value < 5
\* -> Low (0); 5 <= value < 10 -> Moderate (1); value >= 10 -> High (2); 5 is
\* Moderate and 10 is High; every non-null value gets one of the three tiers.
C7_ClassifyThresholds ==
    Applied("classify_uhi") =>
        LET v == fn.arg
            r == fn.out
        IN /\ IsNone(v) => (r.uhi_label = "Unknown" /\ r.uhi_class = None)
           /\ ~IsNone(v) => r.uhi_label \in {"Low", "Moderate", "High"}
           /\ (v.kind = "num" /\ v.num < 5 * v.den) =>
                  (r.uhi_label = "Low" /\ r.uhi_class = Num(0))
           /\ (v.kind = "num" /\ 5 * v.den <= v.num /\ v.num < 10 * v.den) =>
                  (r.uhi_label = "Moderate" /\ r.uhi_class = Num(1))
           /\ (v.kind = "num" /\ v.num >= 10 * v.den) =>
                  (r.uhi_label = "High" /\ r.uhi_class = Num(2))
           /\ v.kind = "neginf" => (r.uhi_label = "Low" /\ r.uhi_class = Num(0))
           /\ v.kind = "posinf" => (r.uhi_label = "High" /\ r.uhi_class = Num(2))
           /\ v = Frac(10, 2) => r.uhi_label = "Moderate"
           /\ v = Frac(20, 2) => r.uhi_label = "High"

C7_Witness ==
    /\ Applied("classify_uhi")
    /\ fn.arg = Frac(10, 2)
    /\ fn.out.uhi_label = "Moderate" /\ fn.out.uhi_class = Num(1)

\* C8: generate_recommendations is decided by the tier label alone: the 3
\* fixed strings for High, the 3 for Moderate, the 1 for Low, none for Unknown
\* or any other label, whatever lst, ndvi, ndbi are; and a point analysis that
\* ends ok has a label among Low, Moderate, High and 1 or 3 recommendations,
\* 3 when the primary sample is >= 10.
C8_RecommendationsByTier ==
    /\ Applied("generate_recommendations") =>
        LET l == fn.arg.uhi_label
        IN /\ l = "High" =>
                fn.out = << "CRITICAL ACTION REQUIRED",
                            "ACCELERATED GREENING MANDATE",
                            "INFRASTRUCTURE RETROFIT PROGRAM" >>
           /\ l = "Moderate" =>
                fn.out = << "TARGETED MITIGATION", "VEGETATION ENHANCEMENT PLAN",
                            "CONTINUOUS MONITORING PROTOCOL" >>
           /\ l = "Low" => fn.out = << "CONSERVATION PRIORITY ZONE" >>
           /\ l \notin {"High", "Moderate", "Low"} => fn.out = <<>>
    /\ (Applied("get_location_analysis") /\ fn.out.http = 200
        /\ fn.out.data_status = "ok") =>
           /\ fn.out.uhi_label \in {"Low", "Moderate", "High"}
           /\ Len(fn.out.recommendations) \in {1, 3}
           /\ Len(fn.out.recommendations) = 1 <=> fn.out.uhi_label = "Low"
           /\ GeInt(fn.arg.uhi_class, 10) => Len(fn.out.recommendations) = 3

C8_Witness ==
    /\ Applied("get_location_analysis")
    /\ fn.arg.uhi_class = Frac(24, 2) /\ fn.arg.lst = None
    /\ fn.out.data_status = "ok" /\ fn.out.uhi_label = "High"
    /\ Len(fn.out.recommendations) = 3

\* C9: generate_aoi_recommendations: first match wins, strict comparisons:
\* percentage_high > 40 -> Severe Heat Action Zone / Critical; else
\* percentage_high + percentage_moderate > 60 -> Heat Mitigation Priority /
\* High; else percentage_low > 70 -> Conservation Priority Zone / Moderate;
\* else Mixed Urban Thermal Zone / Moderate; always 5 actions; exactly 40,
\* exactly 60 combined and exactly 70 do not fire their rule.
C9_ZoneRuleTable ==
    Applied("generate_aoi_recommendations") =>
        LET h == fn.arg.uhi_distribution.percentage_high
            m == fn.arg.uhi_distribution.percentage_moderate
            l == fn.arg.uhi_distribution.percentage_low
            z == fn.out
        IN /\ Len(z.key_actions) = 5
           /\ Cardinality(Range(z.key_actions)) = 5
           /\ h > 4000 =>
                (z.zone_type = "Severe Heat Action Zone"
                 /\ z.priority_level = "Critical")
           /\ (h <= 4000 /\ h + m > 6000) =>
                (z.zone_type = "Heat Mitigation Priority"
                 /\ z.priority_level = "High")
           /\ (h <= 4000 /\ h + m <= 6000 /\ l > 7000) =>
                (z.zone_type = "Conservation Priority Zone"
                 /\ z.priority_level = "Moderate")
           /\ (h <= 4000 /\ h + m <= 6000 /\ l <= 7000) =>
                (z.zone_type = "Mixed Urban Thermal Zone"
                 /\ z.priority_level = "Moderate")
           /\ h = 4000 => z.zone_type # "Severe Heat Action Zone"
           /\ h + m = 6000 => z.zone_type # "Heat Mitigation Priority"
           /\ l = 7000 => z.zone_type # "Conservation Priority Zone"

C9_Witness ==
    /\ Applied("generate_aoi_recommendations")
    /\ fn.arg.uhi_distribution.percentage_high = 4000
    /\ fn.arg.uhi_distribution.percentage_moderate = 2000
    /\ fn.arg.uhi_distribution.percentage_low = 7000
    /\ fn.out.zone_type = "Mixed Urban Thermal Zone"

\* the clip request got no 200: a non-success status, or no answer at all
ClipFailed(r) == r.net = "fail" \/ r.status # 200
\* the clip request was answered with a non-success status
ClipRejected(r) == r.net = "ok" /\ r.status # 200
\* a bounding-box request would be answered with a raster holding valid pixels
BboxSucceeds(r) ==
    /\ r.net = "ok" /\ r.status = 200 /\ r.readable
    /\ Len(ValidPixels(r.cells, r.nodata)) > 0

BboxRequested(cov) ==
    \E i \in 1..Len(calls) : calls[i].coverage = cov /\ calls[i].mode = "bbox"

\* what C10 asserts of the extractions completed so far: of those among
\* the extractions numbered in failed for which a bounding-box request
\* would succeed
FallbackDelivers(failed) ==
    req.op = "aoi" =>
        \A i \in failed :
            BboxSucceeds(backend[i].bbox) =>
                /\ got[i] = Pixels(ValidPixels(backend[i].bbox.cells,
                                               backend[i].bbox.nodata))
                /\ (i = 1 /\ pc = "done") =>
                       /\ result.http = 200 /\ result.status = "success"
                       /\ result.statistics.uhi.count = Len(got[1].px)

\* C10 (as stated): for every coverage, whenever the clip request is rejected
\* or fails (non-success status or failed request) and a bounding-box request
\* would succeed with valid pixels, the extraction returns the bounding-box
\* data, and for the primary coverage the AOI pipeline ends with success.
C10_FallbackOnAnyClipFailure ==
    FallbackDelivers({i \in 1..Len(got) : ClipFailed(backend[i].clip)})

\* C10 (amended): the same whenever the clip request is answered with a
\* non-success status; when the clip request fails without an answer no
\* bounding-box request is issued and the extraction returns no pixels.
C10_FallbackOnClipStatus ==
    /\ FallbackDelivers({i \in 1..Len(got) : ClipRejected(backend[i].clip)})
    /\ req.op = "aoi" =>
        \A i \in 1..Len(got) :
            backend[i].clip.net = "fail" =>
                (got[i] = NoPixels /\ ~BboxRequested(Coverages[i]))

C10_Witness ==
    /\ AoiDone /\ Len(got) = 4
    /\ backend[1].clip = HttpErr(404) /\ BboxSucceeds(backend[1].bbox)
    /\ calls[2].mode = "bbox" /\ calls[2].coverage = "thodupuzha__UHI"
    /\ result.status = "success"

-----------------------------------------------------------------------------
(* AOI pipeline properties *)

\* the last answer the raster source gave for coverage number i of the request
RequestsFor(i) == {k \in 1..Len(calls) : calls[k].coverage = Coverages[i]}
LastAnswer(i) ==
    calls[CHOOSE k \in RequestsFor(i) : \A j \in RequestsFor(i) : j <= k].answer

\* all four extractions of an AOI request are over
Extracted == req.op = "aoi" /\ Len(got) = 4 /\ \A i \in 1..4 : RequestsFor(i) # {}

\* the backend failed or was unreachable
BackendFailed(a) == a.net = "fail" \/ a.status # 200

\* a cell the masking rule excludes
Excluded(c, nodata) == IsNaN(c) \/ (~IsNone(nodata) /\ FloatEq(c, nodata))

\* the answer carries no valid pixel
NoValidPixels(a) ==
    \/ BackendFailed(a)
    \/ ~a.readable
    \/ \A k \in 1..Len(a.cells) : Excluded(a.cells[k], a.nodata)

StatKey == <<"uhi", "lst", "ndvi", "ndbi">>

\* C11: when the backend fails or is unreachable on the extraction of the
\* primary (UHI) coverage, the AOI pipeline ends in a terminal failure that
\* carries a diagnostic and is distinguishable from no_data; it does not end
\* as an ordinary result (HTTP 200).
C11_PrimaryFailureIsSurfaced ==
    (AoiDone /\ Extracted /\ BackendFailed(LastAnswer(1))) =>
        /\ result.http # 200
        /\ AoiTerminal(result) \notin {"no_data", "success"}
        /\ result.error # NoMessage

\* C12: whenever the extraction of the primary (UHI) coverage yields no valid
\* pixel, the AOI pipeline ends with status no_data, the computed area_sq_km,
\* an empty statistics object and no distribution, classification or
\* recommendation, whatever the three informational coverages returned.
C12_NoDataTerminus ==
    (AoiDone /\ Extracted /\ NoValidPixels(LastAnswer(1))) =>
        /\ result.http = 200
        /\ result.status = "no_data"
        /\ result.area_sq_km = AreaSqKm(req.geometry.area_sq_m)
        /\ result.statistics = EmptyDict
        /\ DOMAIN result.statistics = {}
        /\ result.fields \cap {"uhi_distribution", "uhi_classification",
                               "recommendations"} = {}
        /\ result.uhi_distribution = NoDistribution
        /\ result.uhi_classification = NoClassification
        /\ result.recommendations = NoZone

C12_Witness ==
    /\ AoiDone /\ Extracted
    /\ LastAnswer(1).net = "ok" /\ LastAnswer(1).status = 200
    /\ LastAnswer(1).readable /\ Len(LastAnswer(1).cells) = 2
    /\ got[1] = NoPixels
    /\ got[2].present /\ got[3].present /\ got[4].present
    /\ result.status = "no_data" /\ result.area_sq_km = 2500

\* the result with the statistics of coverage number i left out of account
ApartFrom(r, i) ==
    [r EXCEPT !.statistics = [r.statistics EXCEPT ![StatKey[i]] = NullStats]]

\* a successful extraction of an informational coverage
SomePixels == Pixels(<<Num(3)>>)

\* C13: a failure (backend error, network failure, no valid pixel) on an
\* informational coverage makes that coverage's statistics null and nothing
\* else: whenever the primary coverage has valid pixels the pipeline ends
\* with status success, a coverage's statistics are null iff its extraction
\* failed, and the rest of the result equals the result obtained had the
\* failed coverage delivered pixels.
C13_InformationalFailureIsLocal ==
    (AoiDone /\ Extracted /\ ~NoValidPixels(LastAnswer(1))) =>
        /\ result.http = 200
        /\ result.status = "success"
        /\ result.statistics.uhi # NullStats
        /\ result.statistics.uhi.count >= 1
        /\ \A i \in 2..4 :
            /\ NoValidPixels(LastAnswer(i))
                   <=> result.statistics[StatKey[i]] = NullStats
            /\ ~NoValidPixels(LastAnswer(i)) =>
                   result.statistics[StatKey[i]].count >= 1
            /\ NoValidPixels(LastAnswer(i)) =>
                   LET g == [got EXCEPT ![i] = SomePixels]
                   IN ApartFrom(result, i) =
                          ApartFrom(AoiOutcome(area, g[1], g[2], g[3], g[4]), i)

C13_Witness ==
    /\ AoiDone /\ Extracted
    /\ got[1].present
    /\ LastAnswer(2) = Raster(<<Num(0)>>, Num(0))
    /\ backend[3].clip = HttpErr(500) /\ LastAnswer(3) = NetFail
    /\ ~NoValidPixels(LastAnswer(4))
    /\ result.status = "success"
    /\ result.statistics.lst = NullStats /\ result.statistics.ndvi = NullStats
    /\ result.statistics.ndbi.count = 1
    /\ result.recommendations # NoZone

\* a parseable, topologically valid, non-empty Polygon or MultiPolygon
WellFormedPolygon(g) ==
    /\ g.type \in {"Polygon", "MultiPolygon"}
    /\ g.parseable /\ g.is_valid /\ ~g.is_empty

\* C14: the area is computed and raster requests are issued only for a
\* parseable, valid, non-empty Polygon or MultiPolygon declared in EPSG:4326;
\* a request failing either check ends as a rejected request with no backend
\* call made and no area computed.
C14_ValidationPrecedesBackend ==
    req.op = "aoi" =>
        LET ok == WellFormedPolygon(req.geometry) /\ req.crs = "EPSG:4326"
        IN /\ (calls # <<>> \/ got # <<>> \/ area # 0
               \/ pc \in {"aoi_prepare", "aoi_clip", "aoi_bbox", "aoi_finish"})
                  => ok
           /\ ~ok => pc \in {"aoi_validate", "done"}
           /\ (~ok /\ pc = "done") =>
                  /\ AoiTerminal(result) = "rejected"
                  /\ result.error # NoMessage
                  /\ calls = <<>> /\ got = <<>> /\ backend = <<>> /\ area = 0

C14_Witness ==
    /\ AoiDone
    /\ req.geometry.type = "Polygon" /\ req.geometry.parseable
    /\ ~req.geometry.is_valid
    /\ req.crs = "EPSG:4326"
    /\ result.http = 422 /\ calls = <<>> /\ area = 0

\* C15: in every success result the label of uhi_classification is the
\* dominant tier of the distribution when that tier is not Unknown, and
\* otherwise the label classify_uhi gives the mean of the primary coverage.
C15_ZoneLabel ==
    (AoiDone /\ result.http = 200 /\ result.status = "success") =>
        LET dominant == result.uhi_distribution.dominant_class
            label == result.uhi_classification.uhi_label
        IN /\ dominant # "Unknown" => label = dominant
           /\ dominant = "Unknown" =>
                  label = classify_uhi(result.statistics.uhi.mean).uhi_label
           /\ label \in {"Low", "Moderate", "High", "Unknown"}

C15_Witness ==
    /\ AoiDone /\ result.http = 200 /\ result.status = "success"
    /\ got[1] = Pixels(<<Num(3), Num(12)>>)
    /\ result.uhi_distribution.dominant_class = "Low"
    /\ classify_uhi(result.statistics.uhi.mean).uhi_label = "Moderate"
    /\ result.uhi_classification.uhi_label = "Low"

-----------------------------------------------------------------------------
(* Properties of the distribution analyzer and of the statistics functions *)

\* the tier of a valid pixel by the boundaries 5 and 10
TierOf(v) ==
    CASE v.kind = "neginf" -> "Low"
      [] v.kind = "posinf" -> "High"
      [] v.kind = "num" /\ v.num < 5 * v.den -> "Low"
      [] v.kind = "num" /\ v.num >= 5 * v.den /\ v.num < 10 * v.den -> "Moderate"
      [] v.kind = "num" /\ v.num >= 10 * v.den -> "High"
      [] OTHER -> "none"

\* the number of pixels of the argument in a tier
InTier(tier) ==
    Cardinality({i \in 1..Len(fn.arg.px) : TierOf(fn.arg.px[i]) = tier})

Analyzed == Applied("analyze_uhi_class_distribution")
AnalyzedNonEmpty == Analyzed /\ fn.arg.present /\ Len(fn.arg.px) > 0
AnalyzedEmpty == Analyzed /\ (~fn.arg.present \/ Len(fn.arg.px) = 0)

\* C16: for every non-empty pixel set the three counts add up to
\* total_pixels, total_pixels is the size of the set, each count is the
\* number of pixels of its tier (every pixel in exactly one tier); the call
\* leaves the array it was given as it was, and a second analysis of the
\* same array returns the same record, whose counts are again those of the
\* tiers of the array given.
C16_CountsPartition ==
    AnalyzedNonEmpty =>
        LET r == fn.out
        IN /\ r.count_low + r.count_moderate + r.count_high = r.total_pixels
           /\ r.total_pixels = Len(fn.arg.px)
           /\ r.count_low = InTier("Low")
           /\ r.count_moderate = InTier("Moderate")
           /\ r.count_high = InTier("High")
           /\ \A i \in 1..Len(fn.arg.px) :
                  TierOf(fn.arg.px[i]) \in {"Low", "Moderate", "High"}
           /\ fn.held = fn.arg
           /\ Len(fn.again) = 1 =>
                  /\ fn.again[1] = r
                  /\ fn.again[1].count_low = InTier("Low")
                  /\ fn.again[1].count_moderate = InTier("Moderate")
                  /\ fn.again[1].count_high = InTier("High")
                  /\ fn.again[1].total_pixels = Len(fn.arg.px)

C16_Witness ==
    /\ AnalyzedNonEmpty
    /\ fn.arg = Pixels(<<Num(4), Num(5), Num(10)>>)
    /\ fn.out.count_low = 1 /\ fn.out.count_moderate = 1
    /\ fn.out.count_high = 1 /\ fn.out.total_pixels = 3
    /\ Len(fn.again) = 1
    /\ fn.again[1].count_high = 1
    /\ fn.held = Pixels(<<Num(4), Num(5), Num(10)>>)

\* twice the weighted sum 0.5 * count_moderate + 1.0 * count_high
TwiceWeighted == fn.out.count_moderate + 2 * fn.out.count_high

\* what C17 says of the bounds and of the special inputs; the severity index
\* is in thousandths
SeverityBounds ==
    /\ AnalyzedNonEmpty =>
           /\ fn.out.severity_index >= 0 /\ fn.out.severity_index <= 1000
           /\ InTier("Low") = Len(fn.arg.px) => fn.out.severity_index = 0
           /\ InTier("High") = Len(fn.arg.px) => fn.out.severity_index = 1000
    /\ AnalyzedEmpty => fn.out.severity_index = 0

\* C17 (as stated): the severity index equals
\* (0.5 * count_moderate + 1.0 * count_high) / total_pixels, lies in [0, 1],
\* is 0 for an all-Low input, 1 for an all-High input and 0 for the empty
\* input.
C17_SeverityIsExactRatio ==
    /\ SeverityBounds
    /\ AnalyzedNonEmpty =>
           fn.out.severity_index * 2 * fn.out.total_pixels
               = 1000 * TwiceWeighted

\* C17 (amended): the severity index equals that ratio rounded to three
\* decimal places (it is the ratio itself when the ratio has at most three
\* decimals), with the same bounds and special inputs.
C17_SeverityIsRoundedRatio ==
    /\ SeverityBounds
    /\ AnalyzedNonEmpty =>
           LET t == fn.out.total_pixels
               diff == fn.out.severity_index * 2 * t - 1000 * TwiceWeighted
           IN /\ diff <= t /\ -diff <= t
              /\ (1000 * TwiceWeighted) % (2 * t) = 0 => diff = 0

C17_Witness ==
    /\ AnalyzedNonEmpty
    /\ fn.arg = Pixels(<<Num(0), Num(4), Num(5)>>)
    /\ fn.out.count_moderate = 1 /\ fn.out.count_high = 0
    /\ fn.out.severity_index = 167

TierOrder == <<"Low", "Moderate", "High">>

\* C18: for every non-empty input the dominant tier is a tier whose pixel
\* count is maximal, and every tier before it in the order Low, Moderate,
\* High has a strictly smaller count.
C18_DominantIsFirstMaximum ==
    AnalyzedNonEmpty =>
        \E k \in 1..3 :
            /\ fn.out.dominant_class = TierOrder[k]
            /\ \A j \in 1..3 : InTier(TierOrder[j]) <= InTier(TierOrder[k])
            /\ \A j \in 1..(k - 1) : InTier(TierOrder[j]) < InTier(TierOrder[k])

C18_Witness ==
    /\ AnalyzedNonEmpty
    /\ fn.arg = Pixels(<<Num(12), Num(5)>>)
    /\ fn.out.count_moderate = 1 /\ fn.out.count_high = 1
    /\ fn.out.dominant_class = "Moderate"

\* C19: on an empty or absent pixel set the analyzer returns a record with
\* the three counts 0, the three percentages 0, total_pixels 0, dominant tier
\* Unknown and severity index 0.
C19_EmptyDistribution ==
    AnalyzedEmpty =>
        fn.out = [count_low |-> 0, count_moderate |-> 0, count_high |-> 0,
                  percentage_low |-> 0, percentage_moderate |-> 0,
                  percentage_high |-> 0, dominant_class |-> "Unknown",
                  severity_index |-> 0, total_pixels |-> 0]

C19_Witness ==
    /\ AnalyzedEmpty
    /\ fn.arg = NoPixels
    /\ fn.out.dominant_class = "Unknown" /\ fn.out.total_pixels = 0

\* the five numeric fields of an AOI statistics record
NumericFields(r) == {r.min, r.max, r.mean, r.median, r.std}

\* C20: compute_aoi_statistics returns, for an empty or absent pixel set, a
\* record with count 0 and min, max, mean, median, std null, and in every
\* record it returns count = 0 iff the numeric fields are all null;
\* compute_raster_stats raises the no-valid-data error when every cell is
\* excluded and returns no record with pixels = 0.
C20_EmptyInputPolicy ==
    /\ Applied("compute_aoi_statistics") =>
           LET r == fn.out
               empty == ~fn.arg.present \/ Len(fn.arg.px) = 0
           IN /\ r.present
              /\ empty => (r.count = 0 /\ NumericFields(r) = {None})
              /\ r.count = 0 <=> NumericFields(r) = {None}
              /\ r.count = 0 <=> empty
              /\ r.count > 0 => None \notin NumericFields(r)
    /\ Applied("compute_raster_stats") =>
           LET a == fn.arg
               r == fn.out
           IN /\ (a.net = "ok" /\ a.status = 200 /\ a.readable
                  /\ \A k \in 1..Len(a.cells) : Excluded(a.cells[k], a.nodata))
                     => r.raised = "ValueError"
              /\ r.raised = "none" => r.pixels >= 1
              /\ r.raised = "none" => None \notin {r.min, r.max, r.mean, r.std}

C20_Witness ==
    /\ Applied("compute_aoi_statistics")
    /\ fn.arg = Pixels(<<>>)
    /\ fn.out.count = 0 /\ fn.out.mean = None /\ fn.out.std = None

-----------------------------------------------------------------------------
(* Properties of the masking sites, of the request discipline and of the
   results *)

MaskingSites == {"compute_raster_stats", "compute_raster_stats_with_bbox",
                 "fetch_pixel_value_from_wcs", "fetch_aoi_raster_from_wcs"}

\* the answer whose band a masking site reads
MaskedAnswer ==
    IF fn.name = "fetch_aoi_raster_from_wcs"
    THEN IF fn.arg.clip_resp.net = "ok" /\ fn.arg.clip_resp.status # 200
         THEN fn.arg.bbox_resp ELSE fn.arg.clip_resp
    ELSE fn.arg

\* a masking site was applied to a readable raster
Masked ==
    /\ fn.name \in MaskingSites
    /\ fn.applied
    /\ MaskedAnswer.net = "ok" /\ MaskedAnswer.status = 200
    /\ MaskedAnswer.readable

EqualSentinel(a) ==
    {k \in 1..Len(a.cells) : ~IsNone(a.nodata) /\ FloatEq(a.cells[k], a.nodata)}
NotANumber(a) == {k \in 1..Len(a.cells) : IsNaN(a.cells[k])}
Kept(a) == SelectSeq(a.cells, LAMBDA c : ~Excluded(c, a.nodata))

\* what each site makes of the cells it keeps
SiteKeeps(kept) ==
    CASE fn.name \in {"compute_raster_stats", "compute_raster_stats_with_bbox"} ->
            IF Len(kept) = 0 THEN fn.out.raised = "ValueError"
            ELSE /\ fn.out.raised = "none"
                 /\ fn.out.pixels = Len(kept)
                 /\ (HasKind(kept, "posinf") => fn.out.max = PosInf)
      [] fn.name = "fetch_pixel_value_from_wcs" ->
            IF Len(kept) = 0 THEN fn.out = None ELSE fn.out = Mean(kept)
      [] fn.name = "fetch_aoi_raster_from_wcs" ->
            IF Len(kept) = 0 THEN fn.out = NoPixels ELSE fn.out = Pixels(kept)

\* C21: at each of the four masking sites a cell is excluded iff it equals the
\* sentinel (when one is defined) or is NaN, and infinite values are kept; so
\* the number of excluded cells is #sentinel + #NaN - #both, and without a
\* sentinel only the NaN cells are excluded
C21_MaskingRule ==
    Masked =>
        LET a == MaskedAnswer
            kept == Kept(a)
        IN /\ SiteKeeps(kept)
           /\ Len(a.cells) - Len(kept) =
                  Cardinality(EqualSentinel(a)) + Cardinality(NotANumber(a))
                  - Cardinality(EqualSentinel(a) \cap NotANumber(a))
           /\ (IsNone(a.nodata) => Len(a.cells) - Len(kept) = Cardinality(NotANumber(a)))

\* the bounding-box statistics read a raster holding the sentinel, a NaN and
\* an infinity in turn: only the infinity is kept
C21_Witness ==
    /\ Applied("compute_raster_stats_with_bbox")
    /\ fn.arg \in {Raster(<<Num(0), PosInf>>, Num(0)), Raster(<<NaN, PosInf>>, Num(0))}
    /\ fn.out.pixels = 1
    /\ fn.out.max = PosInf

\* the label the scalar classifier gives a value
LabelOf(v) == classify_uhi(v).uhi_label

\* C26: the scalar classifier and the array analyzer use the same tier
\* boundaries: the analyzer counts each pixel of a non-empty array in the
\* tier whose label classify_uhi gives that pixel, and the dominant tier of a
\* one-element array is the label classify_uhi gives its element
C26_SameTierBoundaries ==
    AnalyzedNonEmpty =>
        LET px == fn.arg.px
        IN /\ fn.out.count_low =
                  Cardinality({i \in 1..Len(px) : LabelOf(px[i]) = "Low"})
           /\ fn.out.count_moderate =
                  Cardinality({i \in 1..Len(px) : LabelOf(px[i]) = "Moderate"})
           /\ fn.out.count_high =
                  Cardinality({i \in 1..Len(px) : LabelOf(px[i]) = "High"})
           /\ (Len(px) = 1 => fn.out.dominant_class = LabelOf(px[1]))

\* both boundary values were analyzed: 5 alone is Moderate, <<10, 5, 10>> has
\* two High pixels and one Moderate pixel
C26_Witness ==
    /\ AnalyzedNonEmpty
    /\ \/ fn.arg.px = <<Num(5)>> /\ fn.out.dominant_class = "Moderate"
       \/ fn.arg.px = <<Num(10), Num(5), Num(10)>> /\ fn.out.count_high = 2

\* the statistics of layer number i cannot be computed from its answer
LayerFailed(i) == NoValidPixels(fn.arg[i])
FailedLayers == {Layers[i] : i \in {k \in 1..4 : LayerFailed(k)}}
ComputedLayers == {Layers[i] : i \in {k \in 1..4 : ~LayerFailed(k)}}

\* C27: get_analytics_summary fails with HTTP 500 iff the statistics failed
\* for all four layers; otherwise it returns one entry for exactly each layer
\* that succeeded, holding that layer's statistics whatever happened to the
\* other layers, plus an _errors entry keyed by exactly the failed layers iff
\* at least one layer failed
C27_SummaryPartialFailure ==
    Applied("get_analytics_summary") =>
        /\ fn.out.http = 500 <=> \A i \in 1..4 : LayerFailed(i)
        /\ fn.out.http \in {200, 500}
        /\ fn.out.http = 200 =>
              /\ DOMAIN fn.out.layers = ComputedLayers
              /\ \A i \in 1..4 :
                    ~LayerFailed(i) =>
                        fn.out.layers[Layers[i]] = compute_raster_stats(fn.arg[i])
              /\ fn.out.has_errors <=> FailedLayers # {}
              /\ fn.out.has_errors => DOMAIN fn.out.errors = FailedLayers

\* LST is unreachable and NDBI has no valid pixel, NDVI and UHI are computed
C27_Witness ==
    /\ Applied("get_analytics_summary")
    /\ fn.arg = <<NetFail, Raster(<<Num(3), Num(7)>>, None),
                  Raster(<<Num(0)>>, Num(0)), Raster(<<Num(3), Num(7)>>, None)>>
    /\ fn.out.http = 200
    /\ DOMAIN fn.out.layers = {"NDVI", "UHI"}
    /\ fn.out.layers["UHI"].pixels = 2
    /\ DOMAIN fn.out.errors = {"LST", "NDBI"}

\* the zone rules evaluated on the exact tier counts
ExactZone(count_low, count_moderate, count_high) ==
    LET total_pixels == count_low + count_moderate + count_high
    IN IF count_high * 100 > 40 * total_pixels THEN "Severe Heat Action Zone"
       ELSE IF (count_high + count_moderate) * 100 > 60 * total_pixels
            THEN "Heat Mitigation Priority"
       ELSE IF count_low * 100 > 70 * total_pixels
            THEN "Conservation Priority Zone"
       ELSE "Mixed Urban Thermal Zone"

\* C30: the zone of an AOI agrees with the exact pixel proportions: it is
\* Severe Heat Action Zone iff count_high * 100 > 40 * total_pixels, and
\* likewise for the 60 and 70 rules, for every distribution of pixel counts;
\* rounding the percentages to two decimals never changes the rule that fires
C30_ZoneByExactCounts ==
    Applied("analyze_aoi") =>
        fn.out.recommendations.zone_type =
            ExactZone(fn.arg[1], fn.arg[2], fn.arg[3])

\* the membership queries issued so far by the request
MembershipQueries == {k \in 1..Len(calls) : calls[k].service = "WFS"}

\* the raster requests for coverage number i are a clip request alone, or a
\* clip request that did not succeed directly followed by a bbox request
ClipThenBbox(i) ==
    LET r == RequestsFor(i)
    IN \/ r = {}
       \/ \E k \in r : r = {k} /\ calls[k].mode = "clip"
       \/ \E k \in r :
            /\ r = {k, k + 1}
            /\ calls[k].mode = "clip" /\ BackendFailed(calls[k].answer)
            /\ calls[k + 1].mode = "bbox"

\* C22: within one request every external call is attempted at most once, the
\* only second attempt being the bounding-box request after a clip request
\* for the same coverage that did not succeed.  A point analysis issues
\* exactly one membership query and, iff Allowed, exactly one raster request
\* per coverage; an AOI analysis that reaches the extraction issues one or
\* two raster requests per coverage, at most eight in total
C22_NoRetry ==
    /\ req.op = "point" =>
          /\ Cardinality(MembershipQueries) <= 1
          /\ \A i \in 1..4 : Cardinality(RequestsFor(i)) <= 1
          /\ pc = "done" =>
                /\ Cardinality(MembershipQueries) = 1
                /\ \A i \in 1..4 :
                      Cardinality(RequestsFor(i)) = IF gate.is_valid THEN 1 ELSE 0
    /\ req.op = "aoi" =>
          /\ MembershipQueries = {}
          /\ Len(calls) <= 8
          /\ \A i \in 1..4 : ClipThenBbox(i)
          /\ (pc = "done" /\ Len(got) = 4) =>
                \A i \in 1..4 : Cardinality(RequestsFor(i)) \in {1, 2}

\* an AOI analysis whose four clip requests were all rejected ends after
\* eight raster requests
C22_Witness ==
    /\ AoiDone
    /\ Len(calls) = 8
    /\ \A i \in 1..4 : Cardinality(RequestsFor(i)) = 2

\* an AOI analysis ended with status success
AoiSucceeded == AoiDone /\ result.http = 200 /\ result.status = "success"

\* the numeric class and the description that belong to a label
ClassOfLabel(l) ==
    CASE l = "Low" -> Classification(Num(0), "Low", "Acts as a cooling or neutral zone")
      [] l = "Moderate" -> Classification(Num(1), "Moderate", "Potential heat accumulation zone")
      [] l = "High" -> Classification(Num(2), "High", "Urban heat hotspot requiring mitigation")
      [] OTHER -> Classification(None, "Unknown", "UHI classification data unavailable")

\* C28: in every AOI result with status success the uhi_classification record
\* is internally consistent: its uhi_class and its uhi_description are those
\* of its uhi_label (0 with Low, 1 with Moderate, 2 with High), also when the
\* dominant tier differs from the tier of the mean
C28_ClassificationConsistent ==
    AoiSucceeded =>
        result.uhi_classification =
            ClassOfLabel(result.uhi_classification.uhi_label)

\* C29: in every AOI result with status success the primary statistics are
\* non-empty and agree with the distribution: statistics.uhi.count >= 1,
\* uhi_distribution.total_pixels = statistics.uhi.count, and the dominant
\* tier is Low, Moderate or High, never Unknown
C29_SuccessHasPrimaryPixels ==
    AoiSucceeded =>
        /\ result.statistics.uhi.count >= 1
        /\ result.uhi_distribution.total_pixels = result.statistics.uhi.count
        /\ result.uhi_distribution.dominant_class \in {"Low", "Moderate", "High"}
        /\ result.uhi_classification.uhi_label =
              result.uhi_distribution.dominant_class

\* a success over two valid primary pixels, one of them infinite
C29_Witness ==
    /\ AoiSucceeded
    /\ got[1] = Pixels(<<Num(12), PosInf>>)
    /\ result.statistics.uhi.count = 2
    /\ result.uhi_distribution.dominant_class = "High"

-----------------------------------------------------------------------------
(* Properties of concurrently served requests *)

\* worker t serves a point or an AOI analysis
Analysis(t) == threads[t].req.op \in {"point", "aoi"}
DoneT(t) == threads[t].pc = "done"

\* the terminal state of the response of worker t
TerminalOf(t) ==
    IF threads[t].req.op = "point" THEN PointTerminal(threads[t].result)
    ELSE AoiTerminal(threads[t].result)

TerminalStates(op) ==
    IF op = "point"
    THEN {"rejected", "outside_coverage", "ok", "service_error", "internal_error"}
    ELSE {"rejected", "no_data", "success", "internal_error"}

\* C23: every point analysis and every AOI analysis request eventually
\* reaches a terminal state, whatever the backend answers or fails to answer;
\* it then has exactly one response, of one of the terminal kinds of its
\* operation, and keeps it: no request stays in an intermediate step
C23_Termination ==
    /\ \A t \in Threads : Analysis(t) ~> DoneT(t)
    /\ [](\A t \in Threads :
            (Analysis(t) /\ DoneT(t)) =>
                /\ threads[t].result # NoResult
                /\ TerminalOf(t) \in TerminalStates(threads[t].req.op))
    /\ [][\A t \in Threads : DoneT(t) => threads'[t] = threads[t]]_vars

\* an AOI analysis whose clip request for the primary coverage was rejected
\* and whose bounding-box request was not answered ended in no_data
C23_Witness ==
    /\ DoneT(1) /\ threads[1].req.op = "aoi"
    /\ Len(threads[1].calls) >= 2
    /\ threads[1].calls[1].answer = HttpErr(500)
    /\ threads[1].calls[2].answer = NetFail
    /\ TerminalOf(1) = "no_data"

\* the answers worker t received for coverage number i of an AOI analysis
ThreadRequestsFor(t, i) ==
    {k \in 1..Len(threads[t].calls) : threads[t].calls[k].coverage = Coverages[i]}
ThreadAnswer(t, i, mode) ==
    LET r == {k \in ThreadRequestsFor(t, i) : threads[t].calls[k].mode = mode}
    IN IF r = {} THEN NetFail ELSE threads[t].calls[CHOOSE k \in r : TRUE].answer

\* the response of the request of worker t when it is served alone and the
\* backend gives the answers worker t received
Alone(t) ==
    LET th == threads[t]
    IN IF th.req.op = "point"
       THEN LET g == validate_point_within_aoi(th.calls[1].answer)
            IN IF ~g.is_valid THEN PointDenied(g)
               ELSE PointOutcome(
                        fetch_pixel_value_from_wcs(th.calls[2].answer),
                        fetch_pixel_value_from_wcs(th.calls[3].answer),
                        fetch_pixel_value_from_wcs(th.calls[4].answer),
                        fetch_pixel_value_from_wcs(th.calls[5].answer))
       ELSE IF ~RequestAccepted(th.req.geometry, th.req.crs)
            THEN AoiError(422, [msg |-> "validation error", code |-> 0])
            ELSE AoiOutcome(th.req.geometry.area_sq_m,
                    fetch_aoi_raster_from_wcs(th.req.geometry,
                        ThreadAnswer(t, 1, "clip"), ThreadAnswer(t, 1, "bbox")),
                    fetch_aoi_raster_from_wcs(th.req.geometry,
                        ThreadAnswer(t, 2, "clip"), ThreadAnswer(t, 2, "bbox")),
                    fetch_aoi_raster_from_wcs(th.req.geometry,
                        ThreadAnswer(t, 3, "clip"), ThreadAnswer(t, 3, "bbox")),
                    fetch_aoi_raster_from_wcs(th.req.geometry,
                        ThreadAnswer(t, 4, "clip"), ThreadAnswer(t, 4, "bbox")))

\* C24: for any interleaving of concurrently running point and AOI analyses,
\* the terminal result of each request is the result it produces when run
\* alone on its own inputs and the answers to its own calls, and no step of
\* one request changes the state of another
C24_RequestIndependence ==
    /\ [](\A t \in Threads :
            (Analysis(t) /\ DoneT(t)) => threads[t].result = Alone(t))
    /\ [][\A t \in Threads, u \in Threads :
            (t # u /\ threads'[t] # threads[t]) => threads'[u] = threads[u]]_vars

\* two point analyses ran side by side and their primary samples differ:
\* one ended ok, the other outside coverage
C24_Witness ==
    /\ \A t \in Threads : DoneT(t) /\ threads[t].req.op = "point"
    /\ threads[1].gate.is_valid /\ threads[2].gate.is_valid
    /\ threads[1].got[1] = None /\ threads[1].result.data_status = "outside_coverage"
    /\ threads[2].got[1] # None /\ threads[2].result.data_status = "ok"

\* every worker has answered its request
AllDone == \A t \in Threads : DoneT(t)

\* the archive passes every check made before the move: it is named .zip,
\* opens and extracts as a zip archive, holds a .shp file with its .shx and
\* .dbf, and geopandas reads it
PassesChecks(file) ==
    /\ file.zip_name /\ file.zipfile = "none" /\ file.extractall = "none"
    /\ file.has_shp /\ file.has_components /\ file.readable

\* C25 as stated: every analysis operation (whole-coverage statistics, point
\* analysis, AOI analysis, AOI analysis from an uploaded vector file) is
\* side-effect-free: once the calls have returned, with success or with
\* failure, nothing that a request created is left on the file system
C25_NothingPersists == AllDone => disk = EmptyDisk

\* C25 amended: whole-coverage statistics, point analysis and AOI analysis
\* never create anything on the file system.  After the upload operation
\* returned, with success or with failure, a new directory under the map
\* server's data directory is left iff the archive passed the checks up to
\* the reading of the shapefile and neither the reading of the upload nor
\* the creation of the extraction directory or of the new directory itself
\* failed; the extraction directory is left iff it was created and its
\* removal failed
C25_OnlyUploadPersists ==
    \A t \in Threads :
        /\ threads[t].req.op \in {"none", "summary", "layer", "point", "aoi"} =>
              t \notin disk.temp /\ t \notin disk.uploads
        /\ (threads[t].req.op = "upload" /\ DoneT(t)) =>
              LET file == threads[t].req.file
                  env == threads[t].env
              IN /\ t \in disk.uploads <=>
                        /\ PassesChecks(file)
                        /\ env.fault \notin {"read", "mkdtemp", "makedirs"}
                 /\ t \in disk.temp <=>
                        /\ file.zip_name
                        /\ env.fault \notin {"read", "mkdtemp"}
                        /\ ~env.rmtree_ok
                 /\ threads[t].result.http \in {200, 400, 500}
                 /\ (PassesChecks(file) /\ threads[t].result.http # 500) =>
                        t \in disk.uploads

\* an upload without features was rejected with HTTP 400: its extraction
\* directory is gone, its directory under the data directory is there; a
\* point analysis next to it left nothing
C25_Witness ==
    /\ AllDone
    /\ threads[1].req.op = "upload"
    /\ threads[1].result = UploadError(400, [msg |-> "Empty shapefile", code |-> 0])
    /\ threads[2].req.op = "point"
    /\ disk = [temp |-> {}, uploads |-> {1}]

====
